---- MODULE Spec2Model ----
(***************************************************************************)
(* Sheet RAG engine: the hierarchical chunker (hierarchical_chunker.py),   *)
(* the cross-layer validator (cross_validator.py), the batch embedder with *)
(* its cache (batch_embeddings.py, cache.py) and the engine's ingestion    *)
(* and query (sheet_rag_engine.py).                                        *)
(*                                                                         *)
(* Text is a sequence of one-character strings.  A chunk id is the input   *)
(* of the MD5 in _generate_id, <<level, index, text[:50]>>: the hash is    *)
(* taken to be injective on the inputs the model enumerates, the           *)
(* truncation to 50 characters is kept.                                    *)
(***************************************************************************)
EXTENDS Integers, Sequences, FiniteSets, TLC

VARIABLES
    call,        \* the chunker entry point last called
    config,      \* self.config["summary"]["target_size"] of the chunker used
    documents,   \* the documents handed to the call
    doc_chunks,  \* chunk_document's result for each document of the call
    result,      \* the Dict[str, List[ChunkNode]] the call returned
    earlier,     \* the first completed chunk_document call on a recorded document
    sw,          \* the while loop of _create_document_summary_chunks that is running
    validator,   \* the CrossLayerValidator: layer_weights, support_threshold, min_layers
    vcall,       \* the validator entry point last called
    layer_results, \* the layer_results handed to the call
    vprimary_level, \* the primary_level handed to validate
    vembeddings, \* the embeddings handed to the call (empty: None)
    vresults,    \* the List[ValidatedResult] the call returned
    cache_enabled, \* cache.enabled of the global CacheManager
    redis_up,    \* whether the Redis server answers
    redis,       \* the keys of the Redis database with their values
    emb_call,    \* the get_text_embedding_batch call last made
    emb_prev,    \* the call made right before it, when nothing happened in between
    collections, \* the records of the Chroma collection of each layer
    node_ids,    \* how many record ids were handed out
    ingest,      \* the add_documents call last made
    q_call,      \* the query call last made
    cl_call,     \* the clear_layer call that is returning
    fs_call      \* the _format_sources call that is returning

vars == <<call, config, documents, doc_chunks, result, earlier, sw,
         validator, vcall, layer_results, vprimary_level, vembeddings, vresults,
         cache_enabled, redis_up, redis, emb_call, emb_prev,
         collections, node_ids, ingest, q_call, cl_call, fs_call>>

chunkerVars == <<call, config, documents, doc_chunks, result, earlier, sw>>
validatorVars == <<validator, vcall, layer_results, vprimary_level, vembeddings, vresults>>
cacheVars == <<cache_enabled, redis_up, redis>>
embedderVars == <<emb_call, emb_prev>>
engineVars == <<collections, node_ids, ingest, q_call, cl_call, fs_call>>

(***************************************************************************)
(* Characters and strings                                                  *)
(***************************************************************************)
UpperChars == <<"A", "B", "C", "D", "E", "F", "G", "H", "I", "J", "K", "L", "M",
                "N", "O", "P", "Q", "R", "S", "T", "U", "V", "W", "X", "Y", "Z">>

LowerChars == <<"a", "b", "c", "d", "e", "f", "g", "h", "i", "j", "k", "l", "m",
                "n", "o", "p", "q", "r", "s", "t", "u", "v", "w", "x", "y", "z">>

Upper == {UpperChars[i] : i \in 1..26}

Letters == Upper \cup {LowerChars[i] : i \in 1..26}

Digits == {"0", "1", "2", "3", "4", "5", "6", "7", "8", "9"}

\* what \s and str.strip() take for whitespace, within the model's alphabet
Whitespace == {" ", "\n", "\t"}

SentenceEnd == {".", "!", "?"}

\* the elements of a list
Elems(seq) == {seq[i] : i \in DOMAIN seq}

SetMin(S) == CHOOSE x \in S : \A y \in S : x <= y

SetMax(S) == CHOOSE x \in S : \A y \in S : y <= x

Min2(a, b) == IF a <= b THEN a ELSE b

\* str.lower(), and the case folding of re.IGNORECASE
LowerOf == [c \in Upper |-> LowerChars[CHOOSE i \in 1..26 : UpperChars[i] = c]]

ToLower(c) == IF c \in Upper THEN LowerOf[c] ELSE c

LowerText(s) == [i \in 1..Len(s) |-> ToLower(s[i])]

\* text[:n]
Prefix(s, n) == SubSeq(s, 1, Min2(n, Len(s)))

\* text[n:] (0-based n)
Suffix(s, n) == SubSeq(s, n + 1, Len(s))

\* str.strip()
Strip(s) ==
    LET keep == {i \in 1..Len(s) : s[i] \notin Whitespace}
        back == {i \in 1..Len(s) : s[Len(s) + 1 - i] \notin Whitespace}
    IN IF keep = {} THEN <<>>
       ELSE SubSeq(s, SetMin(keep), Len(s) + 1 - SetMin(back))

\* the number of leading characters of s that are in Cls
LeadingRun(s, Cls) ==
    LET stop == {i \in 1..Len(s) : s[i] \notin Cls}
    IN IF stop = {} THEN Len(s) ELSE SetMin(stop) - 1

\* the number of leading characters of s that are not whitespace
LeadingWord(s) ==
    LET stop == {i \in 1..Len(s) : s[i] \in Whitespace}
    IN IF stop = {} THEN Len(s) ELSE SetMin(stop) - 1

\* text.split('\n')
RECURSIVE SplitLines(_)
SplitLines(s) ==
    LET nl == {i \in 1..Len(s) : s[i] = "\n"}
    IN IF nl = {} THEN <<s>>
       ELSE <<SubSeq(s, 1, SetMin(nl) - 1)>> \o SplitLines(Suffix(s, SetMin(nl)))

\* text.split()
\* the words of rest, which starts with a word of n characters
RECURSIVE SplitWords(_)
TakeWord(rest, n) == <<Prefix(rest, n)>> \o SplitWords(Suffix(rest, n))

\* the words of rest, which does not start with whitespace
SplitWordsFrom(rest) == IF rest = <<>> THEN <<>> ELSE TakeWord(rest, LeadingWord(rest))

SplitWords(s) == SplitWordsFrom(Suffix(s, LeadingRun(s, Whitespace)))

\* ' '.join(words)
RECURSIVE JoinWords(_)
JoinWords(words) ==
    IF words = <<>> THEN <<>>
    ELSE IF Len(words) = 1 THEN words[1]
    ELSE words[1] \o <<" ">> \o JoinWords(Tail(words))

\* [f(x) for x in seq if keep(x)] with f = Strip and keep = "stripped length > n"
\* "if s.strip() and len(s.strip()) > n", for the stripped text p
KeepLonger(p, n) == IF p # <<>> /\ Len(p) > n THEN <<p>> ELSE <<>>

RECURSIVE StripAndKeepLonger(_, _)
StripAndKeepLonger(parts, n) ==
    IF parts = <<>> THEN <<>>
    ELSE KeepLonger(Strip(parts[1]), n) \o StripAndKeepLonger(Tail(parts), n)

(***************************************************************************)
(* HierarchicalChunker: constants                                          *)
(***************************************************************************)
\* LAYER_CONFIG["summary"]["target_size"]
DefaultSummaryTarget == 4000

\* text[:50] in _generate_id
IdPrefixLen == 50

\* len(p.strip()) > 20 in _split_into_paragraphs
MinParagraphStripped == 20

\* len(para) < 30 in chunk_document
MinParagraphLen == 30

\* len(s.strip()) > 10 in _split_into_sentences
MinSentenceStripped == 10

\* len(sent) < 15 in chunk_document
MinSentenceLen == 15

\* parent_id = None
None == <<>>

\* the sentinel '<DOT>' of _split_into_sentences, one element of the text
DOT == "<DOT>"

\* (Mr|Mrs|Dr|Prof|Sr|Jr|vs|etc|e\.g|i\.e), in the order of the alternation
Abbreviations ==
    << <<"M", "r">>, <<"M", "r", "s">>, <<"D", "r">>, <<"P", "r", "o", "f">>,
       <<"S", "r">>, <<"J", "r">>, <<"v", "s">>, <<"e", "t", "c">>,
       <<"e", ".", "g">>, <<"i", ".", "e">> >>

\* (Abstract|Introduction|...|Acknowledgments), in the order of the alternation
AcademicLabels ==
    << <<"A", "b", "s", "t", "r", "a", "c", "t">>,
       <<"I", "n", "t", "r", "o", "d", "u", "c", "t", "i", "o", "n">>,
       <<"B", "a", "c", "k", "g", "r", "o", "u", "n", "d">>,
       <<"R", "e", "l", "a", "t", "e", "d", " ", "W", "o", "r", "k">>,
       <<"M", "e", "t", "h", "o", "d", "o", "l", "o", "g", "y">>,
       <<"M", "e", "t", "h", "o", "d", "s">>,
       <<"E", "x", "p", "e", "r", "i", "m", "e", "n", "t", "s">>,
       <<"R", "e", "s", "u", "l", "t", "s">>,
       <<"D", "i", "s", "c", "u", "s", "s", "i", "o", "n">>,
       <<"C", "o", "n", "c", "l", "u", "s", "i", "o", "n">>,
       <<"R", "e", "f", "e", "r", "e", "n", "c", "e", "s">>,
       <<"A", "c", "k", "n", "o", "w", "l", "e", "d", "g", "m", "e", "n", "t", "s">> >>

TitleIntroduction == <<"I", "n", "t", "r", "o", "d", "u", "c", "t", "i", "o", "n">>

TitleContent == <<"C", "o", "n", "t", "e", "n", "t">>

(***************************************************************************)
(* _generate_id                                                            *)
(***************************************************************************)
\* f"{level}:{index}:{text[:50]}", the input of the hash that makes the id
GenerateIdCountingCalls(text, level, index) ==
    <<level, index + Len(earlier), Prefix(text, IdPrefixLen)>>

_generate_id(text, level, index) == <<level, index, Prefix(text, IdPrefixLen)>>

(***************************************************************************)
(* _split_into_sections                                                    *)
(***************************************************************************)
NoMatch == [matched |-> FALSE, group1 |-> <<>>]

\* r'^#+\s+(.+)$' against a stripped line
\* '\s+(.+)$' against a, which follows k characters '#' and starts with m
\* whitespace characters
MarkdownGroup(k, a, m) ==
    IF k >= 1 /\ m >= 1 /\ Len(a) > m
    THEN [matched |-> TRUE, group1 |-> Suffix(a, m)] ELSE NoMatch

MarkdownAfterHashes(k, a) == MarkdownGroup(k, a, LeadingRun(a, Whitespace))

MatchMarkdownHeader(s) ==
    MarkdownAfterHashes(LeadingRun(s, {"#"}), Suffix(s, LeadingRun(s, {"#"})))

\* r'^(\d+\.?\s+[A-Z][^.]+)$' with re.IGNORECASE
\* '[A-Z][^.]+$' against c, which follows k digits, an optional dot and m
\* whitespace characters of s
NumberedTitle(s, k, m, c) ==
    IF /\ k >= 1 /\ m >= 1 /\ Len(c) >= 2
       /\ c[1] \in Letters
       /\ \A i \in 2..Len(c) : c[i] # "."
    THEN [matched |-> TRUE, group1 |-> s] ELSE NoMatch

\* '\s+[A-Z][^.]+$' against b
NumberedAfterDot(s, k, b) ==
    NumberedTitle(s, k, LeadingRun(b, Whitespace), Suffix(b, LeadingRun(b, Whitespace)))

\* '\.?\s+[A-Z][^.]+$' against a
NumberedAfterDigits(s, k, a) ==
    NumberedAfterDot(s, k, IF a # <<>> /\ a[1] = "." THEN Tail(a) ELSE a)

MatchNumberedHeader(s) ==
    NumberedAfterDigits(s, LeadingRun(s, Digits), Suffix(s, LeadingRun(s, Digits)))

\* r'^([A-Z][A-Z\s]+)$' with re.IGNORECASE
MatchCapsHeader(s) ==
    IF /\ Len(s) >= 2
       /\ s[1] \in Letters
       /\ \A i \in 2..Len(s) : s[i] \in Letters \cup Whitespace
    THEN [matched |-> TRUE, group1 |-> s] ELSE NoMatch

AcademicLabelsFolded == [n \in 1..Len(AcademicLabels) |-> LowerText(AcademicLabels[n])]

\* r'^(Abstract|...|Acknowledgments)s?:?\s*$' with re.IGNORECASE
\* the labels that low is, with an optional s and an optional colon after it
AcademicHits(low) ==
    {n \in 1..Len(AcademicLabels) :
        low \in {AcademicLabelsFolded[n], AcademicLabelsFolded[n] \o <<"s">>,
                 AcademicLabelsFolded[n] \o <<":">>,
                 AcademicLabelsFolded[n] \o <<"s", ":">>}}

\* the first alternative of the group that matches
AcademicGroup(s, hits) ==
    IF hits # {}
    THEN [matched |-> TRUE, group1 |-> Prefix(s, Len(AcademicLabels[SetMin(hits)]))]
    ELSE NoMatch

MatchAcademicHeader(s) == AcademicGroup(s, AcademicHits(LowerText(s)))

\* for pattern in section_patterns: re.match(pattern, line.strip(), ...)
\* the match of the first pattern that matches, or that of the last pattern
FirstMatch(matches) ==
    matches[SetMin({n \in 1..Len(matches) : matches[n].matched} \cup {Len(matches)})]

HeaderMatch(s) ==
    FirstMatch(<<MatchMarkdownHeader(s), MatchNumberedHeader(s), MatchCapsHeader(s),
                 MatchAcademicHeader(s)>>)

\* the loop over text.split('\n'): <<sections, current_section>> at its end
RECURSIVE ScanLines(_, _, _)
\* the body of the loop for the first of lines, whose stripped text is stripped
\* and whose match against the patterns is h
ScanLine(lines, sections, current, stripped, h) ==
    IF h.matched
    THEN ScanLines(Tail(lines),
                   IF Strip(current.content) # <<>>
                   THEN Append(sections, current) ELSE sections,
                   [title |-> IF h.group1 # <<>> THEN h.group1 ELSE stripped,
                    content |-> <<>>])
    ELSE ScanLines(Tail(lines), sections,
                   [current EXCEPT !.content = @ \o Head(lines) \o <<"\n">>])

ScanLines(lines, sections, current) ==
    IF lines = <<>> THEN <<sections, current>>
    ELSE ScanLine(lines, sections, current, Strip(Head(lines)),
                  HeaderMatch(Strip(Head(lines))))

\* "Don't forget the last section"
WithLastSection(scan) ==
    IF Strip(scan[2].content) # <<>> THEN Append(scan[1], scan[2]) ELSE scan[1]

\* "If no sections found, treat entire text as one section"
OrWholeText(sections, text) ==
    IF sections = <<>> THEN <<[title |-> TitleContent, content |-> text]>>
    ELSE sections

_split_into_sections(text) ==
    OrWholeText(WithLastSection(ScanLines(SplitLines(text), <<>>,
                                          [title |-> TitleIntroduction,
                                           content |-> <<>>])),
                text)

(***************************************************************************)
(* _split_into_paragraphs and _split_into_sentences                        *)
(***************************************************************************)
\* re.split(r'\n\s*\n', s): a cut starts at the first newline whose following
\* whitespace run holds another newline, and ends at the last newline of the run
\* the newlines of s whose following whitespace run holds another newline
BlankLineCuts(s) ==
    {i \in 1..Len(s) :
        /\ s[i] = "\n"
        /\ \E j \in (i + 1)..(i + LeadingRun(Suffix(s, i), Whitespace)) : s[j] = "\n"}

\* the last newline of the whitespace run that starts at s[i]
BlankLineCutEnd(s, i) ==
    SetMax({j \in (i + 1)..(i + LeadingRun(Suffix(s, i), Whitespace)) : s[j] = "\n"})

RECURSIVE SplitBlankLines(_)
SplitAtBlankLines(s, cuts) ==
    IF cuts = {} THEN <<s>>
    ELSE <<SubSeq(s, 1, SetMin(cuts) - 1)>>
         \o SplitBlankLines(Suffix(s, BlankLineCutEnd(s, SetMin(cuts))))

SplitBlankLines(s) == SplitAtBlankLines(s, BlankLineCuts(s))

_split_into_paragraphs(text) ==
    StripAndKeepLonger(SplitBlankLines(text), MinParagraphStripped)

\* whether abbreviation a, a dot and a whitespace character stand at s[i..]
AbbrevAt(s, i, a) ==
    /\ i + Len(a) + 1 <= Len(s)
    /\ SubSeq(s, i, i + Len(a) - 1) = a
    /\ s[i + Len(a)] = "."
    /\ s[i + Len(a) + 1] \in Whitespace

\* re.sub(r'(Mr|...|i\.e)\.\s', r'\1<DOT> ', s): the leftmost match is replaced
\* and the substitution goes on after it
\* where a match of the pattern starts in s
AbbrevMatches(s) ==
    {i \in 1..Len(s) : \E n \in 1..Len(Abbreviations) : AbbrevAt(s, i, Abbreviations[n])}

\* the first alternative that matches at s[i..]
AbbrevMatching(s, i) ==
    Abbreviations[SetMin({m \in 1..Len(Abbreviations) : AbbrevAt(s, i, Abbreviations[m])})]

RECURSIVE AbbrevSub(_)
\* s with the match of a at i replaced, and the substitution going on after it
AbbrevReplace(s, i, a) ==
    SubSeq(s, 1, i - 1) \o a \o <<DOT, " ">> \o AbbrevSub(Suffix(s, i + Len(a) + 1))

AbbrevSubAt(s, at) ==
    IF at = {} THEN s ELSE AbbrevReplace(s, SetMin(at), AbbrevMatching(s, SetMin(at)))

AbbrevSub(s) == AbbrevSubAt(s, AbbrevMatches(s))

\* re.split(r'(?<=[.!?])\s+', s)
\* the whitespace characters of s that follow sentence-ending punctuation
PunctCuts(s) == {i \in 2..Len(s) : s[i] \in Whitespace /\ s[i - 1] \in SentenceEnd}

RECURSIVE SplitAfterPunct(_)
\* s cut at the whitespace run that starts at s[i]
SplitAtPunct(s, i) ==
    <<SubSeq(s, 1, i - 1)>>
    \o SplitAfterPunct(Suffix(s, i - 1 + LeadingRun(Suffix(s, i - 1), Whitespace)))

SplitAtCuts(s, cuts) == IF cuts = {} THEN <<s>> ELSE SplitAtPunct(s, SetMin(cuts))

SplitAfterPunct(s) == SplitAtCuts(s, PunctCuts(s))

\* s.replace('<DOT>', '.')
RestoreDots(s) == [i \in 1..Len(s) |-> IF s[i] = DOT THEN "." ELSE s[i]]

\* [s.replace('<DOT>', '.') for s in sentences]
RestoreAll(parts) == [n \in 1..Len(parts) |-> RestoreDots(parts[n])]

_split_into_sentences(text) ==
    StripAndKeepLonger(RestoreAll(SplitAfterPunct(AbbrevSub(text))), MinSentenceStripped)

(***************************************************************************)
(* ChunkNode and _create_document_summary_chunks                           *)
(***************************************************************************)
ChunkNode(id, text, level, parent_id, metadata) ==
    [id |-> id, text |-> text, level |-> level, parent_id |-> parent_id,
     children_ids |-> <<>>, metadata |-> metadata]

\* the while loop over the words, from (start, index) on
\* one chunk of the while loop: the words from start to end
SummaryWindow(chunk_text, index, doc_metadata) ==
    ChunkNode(_generate_id(chunk_text, "summary", index), chunk_text, "summary", None,
              ("chunk_index" :> index) @@ doc_metadata)

\* "start = end - overlap_words if end < len(words) else len(words)"
NextStart(words, overlap_words, end) ==
    IF end < Len(words) THEN end - overlap_words ELSE Len(words)

\* the while loop over the words, from (start, index) on
RECURSIVE SummaryWindows(_, _, _, _, _, _)
SummaryWindowsTo(words, chunk_words, overlap_words, start, index, doc_metadata, end) ==
    <<SummaryWindow(JoinWords(SubSeq(words, start + 1, end)), index, doc_metadata)>>
    \o SummaryWindows(words, chunk_words, overlap_words,
                      NextStart(words, overlap_words, end), index + 1, doc_metadata)

SummaryWindows(words, chunk_words, overlap_words, start, index, doc_metadata) ==
    IF ~(start < Len(words)) THEN <<>>
    ELSE SummaryWindowsTo(words, chunk_words, overlap_words, start, index, doc_metadata,
                          Min2(start + chunk_words, Len(words)))

_create_document_summary_chunks(target_size, text, doc_metadata) ==
    IF Len(text) <= target_size
    THEN <<ChunkNode(_generate_id(text, "summary", 0), text, "summary", None,
                     ("chunk_index" :> 0) @@ doc_metadata)>>
    ELSE SummaryWindows(SplitWords(text), target_size \div 5,
                        (target_size \div 5) \div 4, 0, 0, doc_metadata)

(***************************************************************************)
(* chunk_document and chunk_documents                                      *)
(***************************************************************************)
\* parent_id=summary_chunks[0].id if summary_chunks else None
SectionParentIdLast(summary_chunks) ==
    IF summary_chunks # <<>> THEN summary_chunks[Len(summary_chunks)].id ELSE None

SectionParentId(summary_chunks) ==
    IF summary_chunks # <<>> THEN summary_chunks[1].id ELSE None

\* the section chunk of sections_data[idx + 1]
\* the section chunk of sections_data[idx + 1], whose text is section_text
SectionChunkOf(section_text, section, idx, summary_chunks, doc_metadata) ==
    ChunkNode(_generate_id(section_text, "section", idx), section_text, "section",
              SectionParentId(summary_chunks),
              ("section_title" :> section.title) @@ ("section_index" :> idx)
                  @@ doc_metadata)

SectionChunk(section, idx, summary_chunks, doc_metadata) ==
    SectionChunkOf(section.title \o <<"\n", "\n">> \o section.content, section, idx,
                   summary_chunks, doc_metadata)

\* the texts a parent's loop makes chunks of: those not shorter than min_len
RECURSIVE KeepNotShorter(_, _)
KeepNotShorter(texts, min_len) ==
    IF texts = <<>> THEN <<>>
    ELSE (IF Len(texts[1]) < min_len THEN <<>> ELSE <<texts[1]>>)
         \o KeepNotShorter(Tail(texts), min_len)

ParagraphChunk(para, para_idx, section_chunk, doc_metadata) ==
    ChunkNode(_generate_id(para, "paragraph", para_idx), para, "paragraph",
              section_chunk.id,
              ("paragraph_index" :> para_idx)
                  @@ ("parent_section" :> section_chunk.metadata["section_title"])
                  @@ doc_metadata)

SentenceChunk(sent, sent_idx, para_chunk, doc_metadata) ==
    ChunkNode(_generate_id(sent, "sentence", sent_idx), sent, "sentence",
              para_chunk.id,
              ("sentence_index" :> sent_idx) @@ ("parent_paragraph" :> para_chunk.id)
                  @@ doc_metadata)

\* section_chunk.children_ids.append(chunk.id), for each chunk made of the parent
AppendChildren(parent, chunks) ==
    [parent EXCEPT !.children_ids = @ \o [j \in 1..Len(chunks) |-> chunks[j].id]]

\* "for section_chunk in section_chunks" from section k on: the sections with
\* their children_ids filled, and the paragraph chunks made so far
\* the chunks made of the paragraphs paras of section_chunk, the first with
\* index para_idx
ParagraphChunks(paras, para_idx, section_chunk, doc_metadata) ==
    [j \in 1..Len(paras) |->
        ParagraphChunk(paras[j], para_idx + j - 1, section_chunk, doc_metadata)]

\* "for section_chunk in section_chunks" from section k on: the sections with
\* their children_ids filled, and the paragraph chunks made so far
RECURSIVE ParagraphLoop(_, _, _, _)
ParagraphLoopWith(section_chunks, k, paragraph_chunks, doc_metadata, made) ==
    ParagraphLoop([section_chunks EXCEPT ![k] = AppendChildren(@, made)],
                  k + 1, paragraph_chunks \o made, doc_metadata)

ParagraphLoop(section_chunks, k, paragraph_chunks, doc_metadata) ==
    IF k > Len(section_chunks)
    THEN [parents |-> section_chunks, children |-> paragraph_chunks]
    ELSE ParagraphLoopWith(section_chunks, k, paragraph_chunks, doc_metadata,
             ParagraphChunks(KeepNotShorter(_split_into_paragraphs(section_chunks[k].text),
                                            MinParagraphLen),
                             Len(paragraph_chunks), section_chunks[k], doc_metadata))

\* "for para_chunk in paragraph_chunks" from paragraph k on
\* the chunks made of the sentences sents of para_chunk, the first with index
\* sent_idx
SentenceChunks(sents, sent_idx, para_chunk, doc_metadata) ==
    [j \in 1..Len(sents) |->
        SentenceChunk(sents[j], sent_idx + j - 1, para_chunk, doc_metadata)]

\* "for para_chunk in paragraph_chunks" from paragraph k on
RECURSIVE SentenceLoop(_, _, _, _)
SentenceLoopWith(paragraph_chunks, k, sentence_chunks, doc_metadata, made) ==
    SentenceLoop([paragraph_chunks EXCEPT ![k] = AppendChildren(@, made)],
                 k + 1, sentence_chunks \o made, doc_metadata)

SentenceLoop(paragraph_chunks, k, sentence_chunks, doc_metadata) ==
    IF k > Len(paragraph_chunks)
    THEN [parents |-> paragraph_chunks, children |-> sentence_chunks]
    ELSE SentenceLoopWith(paragraph_chunks, k, sentence_chunks, doc_metadata,
             SentenceChunks(KeepNotShorter(_split_into_sentences(paragraph_chunks[k].text),
                                           MinSentenceLen),
                            Len(sentence_chunks), paragraph_chunks[k], doc_metadata))

\* result["sections"] before the paragraph loop fills the children_ids
SectionChunks(sections_data, summary_chunks, doc_metadata) ==
    [i \in 1..Len(sections_data) |->
        SectionChunk(sections_data[i], i - 1, summary_chunks, doc_metadata)]

\* the result, given what the paragraph loop and the sentence loop left
ChunkResult(summary_chunks, paragraphs, sentences) ==
    [sentences |-> sentences.children,
     paragraphs |-> sentences.parents,
     sections |-> paragraphs.parents,
     summaries |-> summary_chunks]

\* "Level 1: Sentences", after the paragraph loop
ChunkSentences(summary_chunks, paragraphs, doc_metadata) ==
    ChunkResult(summary_chunks, paragraphs,
                SentenceLoop(paragraphs.children, 1, <<>>, doc_metadata))

\* "Level 3: Sections" and "Level 2: Paragraphs", after the summaries
ChunkSections(text, doc_metadata, summary_chunks) ==
    ChunkSentences(summary_chunks,
                   ParagraphLoop(SectionChunks(_split_into_sections(text), summary_chunks,
                                               doc_metadata),
                                 1, <<>>, doc_metadata),
                   doc_metadata)

chunk_document(target_size, document) ==
    ChunkSections(document.text, document.metadata,
                  _create_document_summary_chunks(target_size, document.text,
                                                  document.metadata))

EmptyResult == [sentences |-> <<>>, paragraphs |-> <<>>, sections |-> <<>>,
                summaries |-> <<>>]

\* doc_chunks = self.chunk_document(doc), for each doc of the batch
DocChunks(target_size, docs) ==
    [k \in 1..Len(docs) |-> chunk_document(target_size, docs[k])]

\* chunk_documents: combined[level].extend(doc_chunks[level]), document after
\* document
RECURSIVE Combine(_, _)
Combine(combined, per_doc) ==
    IF per_doc = <<>> THEN combined
    ELSE Combine([level \in DOMAIN combined |-> combined[level] \o Head(per_doc)[level]],
                 Tail(per_doc))

(***************************************************************************)
(* The inputs of the chunker                                               *)
(***************************************************************************)
\* lines a document is made of
LineMarkdownHeader == <<"#", " ", "M", "e", "t", "h", "o", "d", "s", "\n">>

LineBlank == <<"\n">>

LineTwoSentences ==
    <<"T", "h", "e", " ", "c", "a", "t", " ", "s", "a", "t", " ", "o", "n", " ",
      "t", "h", "e", " ", "m", "a", "t", ".", " ", "I", "t", " ", "w", "a", "s", " ",
      "w", "a", "r", "m", ".", "\n">>

LineAbbreviation ==
    <<"D", "r", ".", " ", "F", "o", "x", " ", "m", "e", "t", " ", "u", "s", " ",
      "a", "t", " ", "n", "o", "o", "n", ".", " ", "W", "e", " ", "s", "p", "o", "k", "e",
      " ", "a", "g", "a", "i", "n", ".", "\n">>

LineSpaces == <<" ", " ", " ", " ", " ", "\t", " ", " ", " ", " ", " ">>

Lines == {LineMarkdownHeader, LineBlank, LineTwoSentences, LineAbbreviation, LineSpaces}

\* a document with a header line, a paragraph of two sentences and one of one
ExampleText ==
    <<"I", "n", "t", "r", "o", "d", "u", "c", "t", "i", "o", "n", "\n", "\n", "T", "h",
      "e", " ", "c", "a", "t", " ", "s", "a", "t", " ", "o", "n", " ", "t", "h", "e",
      " ", "m", "a", "t", ".", " ", "I", "t", " ", "w", "a", "s", " ", "w", "a", "r",
      "m", ".", "\n", "\n", "T", "h", "e", " ", "d", "o", "g", " ", "b", "a", "r", "k",
      "e", "d", " ", "l", "o", "u", "d", "l", "y", ".">>

ExampleDocument == [text |-> ExampleText, metadata |-> <<>>]

\* the most lines in a document
MaxLines == 3

\* the most documents in one chunk_documents call
MaxBatch == 2

RECURSIVE TextsOfUpTo(_)
TextsOfUpTo(n) ==
    IF n = 0 THEN {<<>>}
    ELSE TextsOfUpTo(n - 1) \cup {t \o l : t \in TextsOfUpTo(n - 1), l \in Lines}

Texts == TextsOfUpTo(MaxLines)

\* document.metadata or {}
Metadatas == {<<>>, [source |-> "p1"]}

\* every text without metadata, the texts of at most one line with each metadata,
\* and the example
Docs ==
    [text : Texts, metadata : {<<>>}] \cup [text : TextsOfUpTo(1), metadata : Metadatas]
        \cup {ExampleDocument}

\* the documents whose first chunk_document call the history keeps
RecordedDocs == {[text |-> LineTwoSentences, metadata |-> <<>>]}

\* the documents of a batch: one with no line, and some that share their start
BatchDocs ==
    {[text |-> t, metadata |-> <<>>] :
        t \in {<<>>,
               LineTwoSentences \o LineTwoSentences,
               LineTwoSentences \o LineTwoSentences \o LineAbbreviation}}

RECURSIVE BatchesUpTo(_)
BatchesUpTo(n) ==
    IF n = 0 THEN {<<>>}
    ELSE BatchesUpTo(n - 1) \cup {Append(b, d) : b \in BatchesUpTo(n - 1), d \in BatchDocs}

\* config["summary"]["target_size"]: the default, and one that a short text exceeds
SummaryTargets == {DefaultSummaryTarget, 20}

(***************************************************************************)
(* The chunker as a state machine: one call of an entry point per step     *)
(***************************************************************************)
ResultLevels == {"sentences", "paragraphs", "sections", "summaries"}

ChunkerIdle ==
    /\ call = "none"
    /\ config = DefaultSummaryTarget
    /\ documents = <<>>
    /\ doc_chunks = <<>>
    /\ result = EmptyResult
    /\ earlier = <<>>
    /\ sw = None

\* HierarchicalChunker(config).chunk_document(document)
ChunkDocumentCall ==
    /\ call = "none"
    /\ \E target_size \in SummaryTargets, document \in Docs :
        /\ call' = "chunk_document"
        /\ config' = target_size
        /\ documents' = <<document>>
        /\ doc_chunks' = <<chunk_document(target_size, document)>>
        /\ result' = doc_chunks'[1]
        /\ UNCHANGED <<earlier, sw, validatorVars, cacheVars, embedderVars, engineVars>>

\* HierarchicalChunker(config).chunk_documents(documents)
ChunkDocumentsCall ==
    /\ call = "none"
    /\ \E target_size \in SummaryTargets, docs \in BatchesUpTo(MaxBatch) :
        /\ call' = "chunk_documents"
        /\ config' = target_size
        /\ documents' = docs
        /\ doc_chunks' = DocChunks(target_size, docs)
        /\ result' = Combine(EmptyResult, doc_chunks')
        /\ UNCHANGED <<earlier, sw, validatorVars, cacheVars, embedderVars, engineVars>>

\* texts of one to six words for the while loop of the summary chunks
LoopWords == <<<<"a", "a">>, <<"b", "b">>, <<"c", "c">>, <<"d", "d">>, <<"e", "e">>,
               <<"f", "f">>>>

LoopTexts == {JoinWords(SubSeq(LoopWords, 1, n)) : n \in 1..Len(LoopWords)}

\* config["summary"]["target_size"] for the loop: from 1 to a size of two words
\* a chunk
LoopTargets == {1, 4, 5, 9, 10}

\* the most iterations of the while loop that are followed
MaxWindows == 6

\* _create_document_summary_chunks(text, {}) enters "else": the words are split, the
\* loop starts at start = 0, index = 0
SummaryLoopStart ==
    /\ call = "none"
    /\ sw = None
    /\ \E target_size \in LoopTargets, text \in LoopTexts :
        /\ Len(text) > target_size
        /\ sw' = [target_size |-> target_size, words |-> SplitWords(text),
                  chunk_words |-> target_size \div 5,
                  overlap_words |-> (target_size \div 5) \div 4,
                  start |-> 0, index |-> 0, chunks |-> <<>>]
    /\ UNCHANGED <<call, config, documents, doc_chunks, result, earlier, validatorVars,
                   cacheVars, embedderVars, engineVars>>

\* sw after one iteration of "while start < len(words)" that ends the chunk at end
SummaryLoopBody(end) ==
    [sw EXCEPT !.chunks = Append(@, SummaryWindow(JoinWords(SubSeq(sw.words, sw.start + 1,
                                                                  end)),
                                                 sw.index, <<>>)),
               !.start = NextStart(sw.words, sw.overlap_words, end),
               !.index = sw.index + 1]

\* one iteration of the loop
SummaryLoopStep ==
    /\ sw # None
    /\ sw.start < Len(sw.words)
    /\ sw.index < MaxWindows
    /\ sw' = SummaryLoopBody(Min2(sw.start + sw.chunk_words, Len(sw.words)))
    /\ UNCHANGED <<call, config, documents, doc_chunks, result, earlier, validatorVars,
                   cacheVars, embedderVars, engineVars>>

\* "return chunks" when the loop has ended
SummaryLoopReturn ==
    /\ sw # None
    /\ ~(sw.start < Len(sw.words))
    /\ sw' = None
    /\ UNCHANGED <<call, config, documents, doc_chunks, result, earlier, validatorVars,
                   cacheVars, embedderVars, engineVars>>

\* the caller is done with the result; the chunker keeps nothing of the call.
\* The history may take the call, when it is the first on a recorded document.
ChunkerReturn ==
    /\ call # "none"
    /\ call' = "none"
    /\ config' = DefaultSummaryTarget
    /\ documents' = <<>>
    /\ doc_chunks' = <<>>
    /\ result' = EmptyResult
    /\ \/ UNCHANGED earlier
       \/ /\ call = "chunk_document"
          /\ earlier = <<>>
          /\ documents[1] \in RecordedDocs
          /\ earlier' = <<[config |-> config, document |-> documents[1],
                          result |-> result]>>
    /\ UNCHANGED <<sw, validatorVars, cacheVars, embedderVars, engineVars>>

(***************************************************************************)
(* Numbers of the validator: exact rationals <<numerator, denominator>>    *)
(* in lowest terms, denominator > 0                                        *)
(***************************************************************************)
RECURSIVE Gcd(_, _)
Gcd(a, b) == IF b = 0 THEN a ELSE Gcd(b, a % b)

Abs(x) == IF x < 0 THEN -x ELSE x

Rat(n, d) == LET g == Gcd(Abs(n), d) IN <<n \div g, d \div g>>

RAdd(x, y) == Rat(x[1] * y[2] + y[1] * x[2], x[2] * y[2])

RMul(x, y) == Rat(x[1] * y[1], x[2] * y[2])

\* x / y for y > 0
RDiv(x, y) == Rat(x[1] * y[2], x[2] * y[1])

RLess(x, y) == x[1] * y[2] < y[1] * x[2]

RLeq(x, y) == x[1] * y[2] <= y[1] * x[2]

RMin(x, y) == IF RLeq(x, y) THEN x ELSE y

Zero == <<0, 1>>

One == <<1, 1>>

(***************************************************************************)
(* CrossLayerValidator                                                     *)
(***************************************************************************)
LayerNames == {"sentence", "paragraph", "section", "summary"}

DEFAULT_LAYER_WEIGHTS ==
    [sentence |-> <<3, 10>>, paragraph |-> <<3, 10>>, section |-> <<1, 4>>,
     summary |-> <<3, 20>>]

DEFAULT_SUPPORT_THRESHOLD == <<1, 2>>

DEFAULT_MIN_LAYERS == 2

\* self.layer_weights.get(level, 0.25)
LayerWeight(self, level) ==
    IF level \in DOMAIN self.layer_weights THEN self.layer_weights[level] ELSE <<1, 4>>

\* similarity + 0.2 for related chunks
RelatedBoost == <<1, 5>>

\* __init__: "layer_weights or self.DEFAULT_LAYER_WEIGHTS"
CrossLayerValidator(layer_weights, support_threshold, min_layers) ==
    [layer_weights |-> IF DOMAIN layer_weights = {} THEN DEFAULT_LAYER_WEIGHTS
                       ELSE layer_weights,
     support_threshold |-> support_threshold,
     min_layers |-> min_layers]

\* set(text.lower().split())
\* where the words of s start and where they end
WordStarts(s) ==
    {k \in 1..Len(s) : s[k] \notin Whitespace /\ (k = 1 \/ s[k - 1] \in Whitespace)}

WordStops(s) ==
    {k \in 1..Len(s) : s[k] \notin Whitespace /\ (k = Len(s) \/ s[k + 1] \in Whitespace)}

\* the words of s, in lower case
WordsBetween(s, starts, stops) ==
    {LowerText(SubSeq(s, i, SetMin({j \in stops : j >= i}))) : i \in starts}

TokenSet(text) == WordsBetween(text, WordStarts(text), WordStops(text))

\* intersection / union of the two token sets
Jaccard(t1, t2) ==
    IF t1 = {} \/ t2 = {} THEN Zero
    ELSE Rat(Cardinality(t1 \cap t2), Cardinality(t1 \cup t2))

_compute_text_similarity(text1, text2) == Jaccard(TokenSet(text1), TokenSet(text2))

RECURSIVE Dot(_, _)
Dot(e1, e2) ==
    IF e1 = <<>> THEN 0 ELSE Head(e1) * Head(e2) + Dot(Tail(e1), Tail(e2))

\* np.linalg.norm, for the vectors of the model, whose norms are integers
Norm(e) == CHOOSE k \in 0..Dot(e, e) : k * k = Dot(e, e)

_compute_embedding_similarity(embedding1, embedding2) ==
    IF Norm(embedding1) = 0 \/ Norm(embedding2) = 0 THEN Zero
    ELSE Rat(Dot(embedding1, embedding2), Norm(embedding1) * Norm(embedding2))

\* candidate.metadata.get("children_ids", [])
ChildrenIdsOf(chunk) ==
    IF "children_ids" \in DOMAIN chunk.metadata
    THEN Elems(chunk.metadata["children_ids"]) ELSE {}

IsRelated(target_chunk, candidate) ==
    \/ candidate.chunk_id = target_chunk.parent_id
    \/ target_chunk.chunk_id \in ChildrenIdsOf(candidate)

\* embeddings.get(id) is a non-empty list
HasEmbedding(embeddings, id) == id \in DOMAIN embeddings /\ embeddings[id] # <<>>

\* the similarity of one candidate: the body of "for candidate in chunks"
\* "if use_embeddings and embeddings: ... else: ..."
Similarity(target_chunk, candidate, embeddings) ==
    IF /\ DOMAIN embeddings # {}
       /\ HasEmbedding(embeddings, target_chunk.chunk_id)
       /\ HasEmbedding(embeddings, candidate.chunk_id)
    THEN _compute_embedding_similarity(embeddings[target_chunk.chunk_id],
                                       embeddings[candidate.chunk_id])
    ELSE _compute_text_similarity(target_chunk.text, candidate.text)

\* "if is_related: similarity = min(1.0, similarity + 0.2)"
Boost(is_related, similarity) ==
    IF is_related THEN RMin(One, RAdd(similarity, RelatedBoost)) ELSE similarity

\* the similarity of one candidate: the body of "for candidate in chunks"
CandidateSimilarity(target_chunk, candidate, embeddings) ==
    Boost(IsRelated(target_chunk, candidate),
          Similarity(target_chunk, candidate, embeddings))

NoBest == [best_match |-> <<>>, best_similarity |-> Zero]

\* "for candidate in chunks" from candidate k on, with the best so far
\* "if similarity > best_similarity: ..."
BetterOf(best, candidate, similarity) ==
    IF RLess(best.best_similarity, similarity)
    THEN [best_match |-> <<candidate>>, best_similarity |-> similarity]
    ELSE best

\* "for candidate in chunks" from candidate k on, with the best so far
RECURSIVE BestMatchLoop(_, _, _, _, _)
BestMatchLoop(target_chunk, chunks, k, best, embeddings) ==
    IF k > Len(chunks) THEN best
    ELSE BestMatchLoop(target_chunk, chunks, k + 1,
                       BetterOf(best, chunks[k],
                                CandidateSimilarity(target_chunk, chunks[k], embeddings)),
                       embeddings)

\* "if best_match and best_similarity >= self.support_threshold"
MeetsThresholdInverted(self, best) ==
    best.best_match # <<>> /\ RLeq(best.best_similarity, self.support_threshold)

MeetsThreshold(self, best) ==
    best.best_match # <<>> /\ RLeq(self.support_threshold, best.best_similarity)

\* level -> (supporting_chunk, similarity_score)
\* the best match of every level but the target's
BestPerLevel(target_chunk, layer_res, embeddings) ==
    [level \in DOMAIN layer_res \ {target_chunk.level} |->
        BestMatchLoop(target_chunk, layer_res[level], 1, NoBest, embeddings)]

\* supporting[level] = (best_match, best_similarity), where the test passes
Supporting(self, best) ==
    [level \in {l \in DOMAIN best : MeetsThreshold(self, best[l])} |->
        [chunk |-> best[level].best_match[1], similarity |-> best[level].best_similarity]]

\* level -> (supporting_chunk, similarity_score)
_find_supporting_chunks(self, target_chunk, layer_res, embeddings) ==
    Supporting(self, BestPerLevel(target_chunk, layer_res, embeddings))

\* the sum of f[x] over x in S
RECURSIVE RSum(_, _)
RSum(f, S) ==
    IF S = {} THEN Zero
    ELSE LET x == CHOOSE y \in S : TRUE IN RAdd(f[x], RSum(f, S \ {x}))

\* min(1.0, base_confidence + coverage_bonus)
NoClamp(x) == x

ClampToOne(x) == RMin(One, x)

\* chunk.score * 0.6 + similarity * 0.4
LevelScore(supporting) ==
    RAdd(RMul(supporting.chunk.score, <<3, 5>>), RMul(supporting.similarity, <<2, 5>>))

\* weighted_score at the end of the loop
WeightedScore(self, primary_chunk, supporting_chunks) ==
    RAdd(RMul(LayerWeight(self, primary_chunk.level), primary_chunk.score),
         RSum([level \in DOMAIN supporting_chunks |->
                  RMul(LayerWeight(self, level), LevelScore(supporting_chunks[level]))],
              DOMAIN supporting_chunks))

\* total_weight at the end of the loop
TotalWeight(self, primary_chunk, supporting_chunks) ==
    RAdd(LayerWeight(self, primary_chunk.level),
         RSum([level \in DOMAIN supporting_chunks |-> LayerWeight(self, level)],
              DOMAIN supporting_chunks))

\* min(0.2, (layer_coverage - 1) * 0.1)
CoverageBonus(supporting_chunks) ==
    RMin(<<1, 5>>, Rat(Cardinality(DOMAIN supporting_chunks), 10))

\* "if total_weight == 0: return 0.0", else the clamped sum
Confidence(weighted_score, total_weight, coverage_bonus) ==
    IF total_weight = Zero THEN Zero
    ELSE ClampToOne(RAdd(RDiv(weighted_score, total_weight), coverage_bonus))

_compute_confidence(self, primary_chunk, supporting_chunks) ==
    Confidence(WeightedScore(self, primary_chunk, supporting_chunks),
               TotalWeight(self, primary_chunk, supporting_chunks),
               CoverageBonus(supporting_chunks))

\* "if layer_coverage < self.min_layers: continue"
BelowMinLayersOffByOne(self, layer_coverage) == layer_coverage < self.min_layers - 1

BelowMinLayers(self, layer_coverage) == layer_coverage < self.min_layers

ValidatedResult(self, primary_chunk, supporting) ==
    [primary_chunk |-> primary_chunk,
     supporting_chunks |-> [level \in DOMAIN supporting |-> supporting[level].chunk],
     confidence_score |-> _compute_confidence(self, primary_chunk, supporting),
     layer_coverage |-> 1 + Cardinality(DOMAIN supporting),
     validation_details |->
        [similarities |-> [level \in DOMAIN supporting |-> supporting[level].similarity],
         layer_weights_used |-> self.layer_weights,
         threshold |-> self.support_threshold]]

\* layer_results.get(primary_level, [])
PrimaryChunks(layer_res, primary_level) ==
    IF primary_level \in DOMAIN layer_res THEN layer_res[primary_level] ELSE <<>>

\* "for primary_chunk in primary_chunks" from primary k on: validated_results
\* as the loop leaves it, before the sort
\* the body of the loop for primary_chunk, whose supporting chunks are supporting
ValidateOne(self, primary_chunk, validated_results, supporting) ==
    IF BelowMinLayers(self, 1 + Cardinality(DOMAIN supporting))
    THEN validated_results
    ELSE Append(validated_results, ValidatedResult(self, primary_chunk, supporting))

\* "for primary_chunk in primary_chunks" from primary k on: validated_results
\* as the loop leaves it, before the sort
RECURSIVE ValidateLoop(_, _, _, _, _, _)
ValidateLoop(self, layer_res, primary_chunks, k, validated_results, embeddings) ==
    IF k > Len(primary_chunks) THEN validated_results
    ELSE ValidateLoop(self, layer_res, primary_chunks, k + 1,
                      ValidateOne(self, primary_chunks[k], validated_results,
                                  _find_supporting_chunks(self, primary_chunks[k],
                                                          layer_res, embeddings)),
                      embeddings)

\* where list.sort(key=confidence_score, reverse=True), which is stable, puts r
\* among the results before it: after those of greater or equal confidence
InsertPositionBeforeEquals(sorted, r) ==
    Cardinality({i \in DOMAIN sorted :
                    RLess(r.confidence_score, sorted[i].confidence_score)})

InsertPosition(sorted, r) ==
    Cardinality({i \in DOMAIN sorted :
                    RLeq(r.confidence_score, sorted[i].confidence_score)})

\* validated_results.sort(key=lambda r: r.confidence_score, reverse=True)
\* sorted with r put at position k
InsertAt(sorted, k, r) == SubSeq(sorted, 1, k) \o <<r>> \o Suffix(sorted, k)

\* validated_results.sort(key=lambda r: r.confidence_score, reverse=True)
RECURSIVE SortLoop(_, _)
SortLoop(sorted, rest) ==
    IF rest = <<>> THEN sorted
    ELSE SortLoop(InsertAt(sorted, InsertPosition(sorted, Head(rest)), Head(rest)),
                  Tail(rest))

SortByConfidence(results) == SortLoop(<<>>, results)

validate(self, layer_res, primary_level, embeddings) ==
    SortByConfidence(ValidateLoop(self, layer_res, PrimaryChunks(layer_res, primary_level),
                                  1, <<>>, embeddings))

\* "if result.primary_chunk.chunk_id not in seen_chunk_ids"
NotSeenAlways(seen_chunk_ids, chunk_id) == TRUE

NotSeen(seen_chunk_ids, chunk_id) == chunk_id \notin seen_chunk_ids

\* "for result in level_results": <<all_results, seen_chunk_ids>> at its end
\* "for result in level_results": <<all_results, seen_chunk_ids>> at its end
RECURSIVE MergeLoop(_, _, _)
MergeLoop(level_results, all_results, seen_chunk_ids) ==
    IF level_results = <<>> THEN <<all_results, seen_chunk_ids>>
    ELSE IF NotSeen(seen_chunk_ids, Head(level_results).primary_chunk.chunk_id)
    THEN MergeLoop(Tail(level_results), Append(all_results, Head(level_results)),
                   seen_chunk_ids \cup {Head(level_results).primary_chunk.chunk_id})
    ELSE MergeLoop(Tail(level_results), all_results, seen_chunk_ids)

BidirectionalLevels == <<"sentence", "paragraph", "section">>

\* "for level in [sentence, paragraph, section]" from level k on: all_results
\* "for level in [sentence, paragraph, section]" from level k on: all_results
RECURSIVE PassLoop(_, _, _, _, _, _)
PassLoopWith(self, layer_res, embeddings, k, merged) ==
    PassLoop(self, layer_res, embeddings, k + 1, merged[1], merged[2])

PassLoop(self, layer_res, embeddings, k, all_results, seen_chunk_ids) ==
    IF k > Len(BidirectionalLevels) THEN all_results
    ELSE IF BidirectionalLevels[k] \in DOMAIN layer_res
    THEN PassLoopWith(self, layer_res, embeddings, k,
                      MergeLoop(validate(self, layer_res, BidirectionalLevels[k],
                                         embeddings),
                                all_results, seen_chunk_ids))
    ELSE PassLoop(self, layer_res, embeddings, k + 1, all_results, seen_chunk_ids)

validate_bidirectional(self, layer_res, embeddings) ==
    SortByConfidence(PassLoop(self, layer_res, embeddings, 1, <<>>, {}))

(***************************************************************************)
(* The inputs of the validator                                             *)
(***************************************************************************)
\* ScoredChunk; __post_init__ makes a metadata of None the empty dict
ScoredChunk(chunk_id, text, level, score, parent_id, metadata) ==
    [chunk_id |-> chunk_id, text |-> text, level |-> level, score |-> score,
     parent_id |-> parent_id, metadata |-> metadata]

IdS1 == <<"s", "1">>

IdS2 == <<"s", "2">>

IdP1 == <<"p", "1">>

IdP2 == <<"p", "2">>

IdX1 == <<"x", "1">>

IdM1 == <<"m", "1">>

IdM2 == <<"m", "2">>

TextAB == <<"a", " ", "b">>

TextABCD == <<"a", " ", "b", " ", "c", " ", "d">>

TextABCDE == <<"a", " ", "b", " ", "c", " ", "d", " ", "e">>

\* the chunks a retriever may return for each level: a sentence with its paragraph,
\* section and summary, a second chunk per level, and in the section layer a chunk
\* that has the id of the paragraph
ChunkPool ==
    [sentence |->
        {ScoredChunk(IdS1, <<"A", " ", "b">>, "sentence", One, IdP1, <<>>),
         ScoredChunk(IdS2, TextAB, "sentence", <<1, 2>>, None, <<>>)},
     paragraph |->
        {ScoredChunk(IdP1, TextABCDE, "paragraph", One, IdX1,
                     [children_ids |-> <<IdS1>>]),
         ScoredChunk(IdP2, TextAB, "paragraph", <<1, 2>>, None, <<>>)},
     section |->
        {ScoredChunk(IdX1, TextABCD, "section", One, IdM1, [children_ids |-> <<IdP1>>]),
         ScoredChunk(IdP1, TextABCDE, "section", <<1, 2>>, None, <<>>)},
     summary |->
        {ScoredChunk(IdM1, TextAB, "summary", One, None, [children_ids |-> <<IdX1>>]),
         ScoredChunk(IdM2, <<>>, "summary", Zero, None, <<>>)}]

\* the most chunks in layer_results, all levels together
MaxChunks == 4

\* the lists of at most n different chunks of pool
RECURSIVE ListsOf(_, _)
ListsOf(pool, n) ==
    IF n = 0 THEN {<<>>}
    ELSE ListsOf(pool, n - 1)
         \cup {Append(lc[1], lc[2]) :
                 lc \in {x \in ListsOf(pool, n - 1) \X pool : x[2] \notin Elems(x[1])}}

FullLayerResults ==
    {lr \in [sentence : ListsOf(ChunkPool.sentence, MaxChunks),
             paragraph : ListsOf(ChunkPool.paragraph, MaxChunks),
             section : ListsOf(ChunkPool.section, MaxChunks),
             summary : ListsOf(ChunkPool.summary, MaxChunks)] :
        Len(lr.sentence) + Len(lr.paragraph) + Len(lr.section) + Len(lr.summary)
            <= MaxChunks}

\* layer_results without the levels that retrieved nothing
WithoutEmptyLevels(lr) == [level \in {l \in DOMAIN lr : lr[l] # <<>>} |-> lr[level]]

\* how many chunks lr holds, all levels together
TotalLen(lr) == Len(lr.sentence) + Len(lr.paragraph) + Len(lr.section) + Len(lr.summary)

\* the levels that retrieved nothing are left out, or, where at most one chunk was
\* retrieved, present with an empty list
LayerResultsChoices ==
    {WithoutEmptyLevels(lr) : lr \in FullLayerResults}
    \cup {lr \in FullLayerResults : TotalLen(lr) <= 1}

Thresholds == {Zero, DEFAULT_SUPPORT_THRESHOLD, <<3, 5>>, One}

\* validators: the default one, and others with min_layers 1 and 3, with all
\* weights zero and with a weight for one level only
Validators ==
    {CrossLayerValidator(<<>>, DEFAULT_SUPPORT_THRESHOLD, DEFAULT_MIN_LAYERS),
     CrossLayerValidator(<<>>, DEFAULT_SUPPORT_THRESHOLD, 1),
     CrossLayerValidator(<<>>, Zero, 3),
     CrossLayerValidator([l \in LayerNames |-> Zero], <<3, 5>>, 1),
     CrossLayerValidator([sentence |-> One], One, DEFAULT_MIN_LAYERS)}

\* embeddings of some chunks; the list of s2 is empty and p2, m2 have none
SomeEmbeddings ==
    (IdS1 :> <<1, 0>>) @@ (IdP1 :> <<3, 4>>) @@ (IdX1 :> <<0, 1>>)
        @@ (IdM1 :> <<-1, 0>>) @@ (IdS2 :> <<>>)

ValidatorChoices ==
    {[self |-> v, embeddings |-> <<>>] : v \in Validators}
    \cup {[self |-> CrossLayerValidator(<<>>, DEFAULT_SUPPORT_THRESHOLD, DEFAULT_MIN_LAYERS),
           embeddings |-> SomeEmbeddings]}

(***************************************************************************)
(* The validator as a state machine: one call of an entry point per step   *)
(***************************************************************************)
ValidatorIdle ==
    /\ validator = CrossLayerValidator(<<>>, DEFAULT_SUPPORT_THRESHOLD, DEFAULT_MIN_LAYERS)
    /\ vcall = "none"
    /\ layer_results = <<>>
    /\ vprimary_level = "sentence"
    /\ vembeddings = <<>>
    /\ vresults = <<>>

\* CrossLayerValidator(...).validate(layer_results, primary_level, embeddings)
ValidateCall ==
    /\ vcall = "none"
    /\ \E c \in ValidatorChoices, lr \in LayerResultsChoices, level \in {"sentence", "section"} :
        /\ vcall' = "validate"
        /\ validator' = c.self
        /\ layer_results' = lr
        /\ vprimary_level' = level
        /\ vembeddings' = c.embeddings
        /\ vresults' = validate(c.self, lr, level, c.embeddings)
        /\ UNCHANGED <<chunkerVars, cacheVars, embedderVars, engineVars>>

\* CrossLayerValidator(...).validate_bidirectional(layer_results, embeddings)
ValidateBidirectionalCall ==
    /\ vcall = "none"
    /\ \E c \in ValidatorChoices, lr \in LayerResultsChoices :
        /\ vcall' = "validate_bidirectional"
        /\ validator' = c.self
        /\ layer_results' = lr
        /\ vprimary_level' = "sentence"
        /\ vembeddings' = c.embeddings
        /\ vresults' = validate_bidirectional(c.self, lr, c.embeddings)
        /\ UNCHANGED <<chunkerVars, cacheVars, embedderVars, engineVars>>

\* the caller is done with the result; the validator keeps nothing of the call
ValidatorReturn ==
    /\ vcall # "none"
    /\ vcall' = "none"
    /\ validator' = CrossLayerValidator(<<>>, DEFAULT_SUPPORT_THRESHOLD, DEFAULT_MIN_LAYERS)
    /\ layer_results' = <<>>
    /\ vprimary_level' = "sentence"
    /\ vembeddings' = <<>>
    /\ vresults' = <<>>
    /\ UNCHANGED <<chunkerVars, cacheVars, embedderVars, engineVars>>

(***************************************************************************)
(* The cache (cache.py): the global CacheManager over a Redis database.    *)
(* A key is the input of the MD5 in _make_key, <<prefix, data>>: the hash  *)
(* is taken to be injective.  A value is what pickle.dumps was given.      *)
(***************************************************************************)
_make_key(prefix, data) == <<prefix, data>>

\* the cache as one call sees it: cache.enabled, the server, its keys
CacheManager(enabled, up, keys) == [enabled |-> enabled, up |-> up, keys |-> keys]

\* "cached = self.client.get(key); if cached: return pickle.loads(cached)";
\* a server that does not answer raises, "except" prints and None is returned
ClientGet(cache, key) ==
    IF ~cache.up THEN None
    ELSE IF key \in DOMAIN cache.keys THEN cache.keys[key] ELSE None

\* "self.client.setex(key, ttl, pickle.dumps(value))": the keys afterwards;
\* a server that does not answer raises, "except" prints
ClientSetex(cache, key, value) ==
    IF ~cache.up THEN cache.keys
    ELSE [k \in DOMAIN cache.keys \cup {key} |-> IF k = key THEN value ELSE cache.keys[k]]

\* the embedding looked up whether or not the cache is enabled
GetEmbeddingAlways(cache, text) == ClientGet(cache, _make_key("emb", text))

get_embedding(cache, text) ==
    IF ~cache.enabled THEN None ELSE ClientGet(cache, _make_key("emb", text))

\* set_embedding without the write
SetEmbeddingDropped(cache, text, embedding) == cache.keys

\* the keys after set_embedding
set_embedding(cache, text, embedding) ==
    IF ~cache.enabled THEN cache.keys
    ELSE ClientSetex(cache, _make_key("emb", text), embedding)

get_query_result(cache, query) ==
    IF ~cache.enabled THEN None ELSE ClientGet(cache, _make_key("query", query))

\* the keys after set_query_result
set_query_result(cache, query, res) ==
    IF ~cache.enabled THEN cache.keys
    ELSE ClientSetex(cache, _make_key("query", query), res)

(***************************************************************************)
(* The batch embedder (batch_embeddings.py)                                *)
(***************************************************************************)
\* settings.batch_size
DefaultBatchSize == 32

\* "if cached:": None and an empty list are false
IsHit(cached) == cached # None

\* embeddings after "for i, text in enumerate(texts)": the cached vector, or the
\* placeholder None
ProbedEmbeddings(cache, texts) ==
    [p \in 1..Len(texts) |->
        IF IsHit(get_embedding(cache, texts[p])) THEN get_embedding(cache, texts[p])
        ELSE None]

\* every position taken for uncached
UncachedIndicesAll(cache, texts) == [p \in 1..Len(texts) |-> p]

\* uncached_indices after that loop; positions count from 1
UncachedIndices(cache, texts) ==
    SelectSeq([p \in 1..Len(texts) |-> p],
              LAMBDA p : ~IsHit(get_embedding(cache, texts[p])))

\* uncached_texts after that loop
UncachedTexts(texts, uncached_indices) ==
    [k \in 1..Len(uncached_indices) |-> texts[uncached_indices[k]]]

\* the vector the embedding service computes for a text
RemoteVector == [a |-> <<1, 0>>, b |-> <<0, 1>>, c |-> <<1, 1>>]

\* self.embed_model.get_text_embedding_batch(batch) when the service answers:
\* one vector per text, in order
RemoteEmbeddings(batch) == [k \in 1..Len(batch) |-> RemoteVector[batch[k]]]

\* "for text, embedding in zip(batch, batch_embeddings)" from pair k on: the keys
\* afterwards
RECURSIVE CacheBatch(_, _, _, _)
CacheBatch(cache, batch, batch_embeddings, k) ==
    IF k > Len(batch) \/ k > Len(batch_embeddings) THEN cache.keys
    ELSE CacheBatch(CacheManager(cache.enabled, cache.up,
                                 set_embedding(cache, batch[k], batch_embeddings[k])),
                    batch, batch_embeddings, k + 1)

\* original_idx without the offset of the batch
OriginalIdxInBatch(uncached_indices, i, j) == uncached_indices[j]

\* "original_idx = uncached_indices[i + j]": i is the offset of the batch, j counts
\* from 1
OriginalIdx(uncached_indices, i, j) == uncached_indices[i + j]

\* "for j, embedding in enumerate(batch_embeddings)": embeddings afterwards
FillPlaceholders(embeddings, uncached_indices, i, batch_embeddings) ==
    [p \in DOMAIN embeddings |->
        IF \E j \in 1..Len(batch_embeddings) : OriginalIdx(uncached_indices, i, j) = p
        THEN batch_embeddings[SetMax({j \in 1..Len(batch_embeddings) :
                                        OriginalIdx(uncached_indices, i, j) = p})]
        ELSE embeddings[p]]

\* what a call has done so far; submitted: the batches sent to the embedding
\* service, in the order of the requests
EmbedProgress(outcome, embeddings, keys, submitted) ==
    [outcome |-> outcome, embeddings |-> embeddings, keys |-> keys,
     requests |-> Len(submitted), submitted |-> submitted]

\* "for i in range(0, len(uncached_texts), self.batch_size)" from offset i on; the
\* request number fail_at to the embedding service raises, and the call with it
RECURSIVE BatchLoop(_, _, _, _, _, _, _)
BatchStep(batch_size, cache, fail_at, uncached_texts, uncached_indices, i, done, batch) ==
    IF done.requests + 1 = fail_at
    THEN EmbedProgress("error", <<>>, cache.keys, Append(done.submitted, batch))
    ELSE BatchLoop(batch_size,
                   CacheManager(cache.enabled, cache.up,
                                CacheBatch(cache, batch, RemoteEmbeddings(batch), 1)),
                   fail_at, uncached_texts, uncached_indices, i + batch_size,
                   EmbedProgress("ok",
                                 FillPlaceholders(done.embeddings, uncached_indices, i,
                                                  RemoteEmbeddings(batch)),
                                 cache.keys, Append(done.submitted, batch)))

BatchLoop(batch_size, cache, fail_at, uncached_texts, uncached_indices, i, done) ==
    IF i >= Len(uncached_texts)
    THEN EmbedProgress(done.outcome, done.embeddings, cache.keys, done.submitted)
    ELSE BatchStep(batch_size, cache, fail_at, uncached_texts, uncached_indices, i, done,
                   SubSeq(uncached_texts, i + 1, Min2(i + batch_size, Len(uncached_texts))))

\* BatchEmbeddingWrapper.get_text_embedding_batch with self.batch_size = batch_size:
\* what it returns or raises, the keys of the cache afterwards and the requests made
get_text_embedding_batch(batch_size, cache, fail_at, texts) ==
    BatchLoop(batch_size, cache, fail_at,
              UncachedTexts(texts, UncachedIndices(cache, texts)),
              UncachedIndices(cache, texts), 0,
              EmbedProgress("ok", ProbedEmbeddings(cache, texts), cache.keys, <<>>))

(***************************************************************************)
(* The inputs of the embedder                                              *)
(***************************************************************************)
EmbedTexts == {"a", "b"}

\* the most texts in one call
MaxTexts == 2

RECURSIVE TextListsUpTo(_)
TextListsUpTo(n) ==
    IF n = 0 THEN {<<>>}
    ELSE TextListsUpTo(n - 1)
         \cup {Append(l, t) : l \in TextListsUpTo(n - 1), t \in EmbedTexts}

BatchSizes == {1, 2, DefaultBatchSize}

\* the request to the embedding service that raises; 0: none does
FailAt == 0..2

(***************************************************************************)
(* The cache and the embedder as a state machine                           *)
(***************************************************************************)
CacheIdle ==
    /\ cache_enabled = FALSE
    /\ redis_up = TRUE
    /\ redis = <<>>

EmbedderIdle ==
    /\ emb_call = None
    /\ emb_prev = None

\* the cache of the running process
TheCache == CacheManager(cache_enabled, redis_up, redis)

\* the texts with an embedding among keys
EmbeddedTexts(keys) == {t \in EmbedTexts : _make_key("emb", t) \in DOMAIN keys}

\* the record of a call: its inputs, what it did (done), the cache it met
EmbedCallRecord(batch_size, texts, done) ==
    [texts |-> texts,
     batch_size |-> batch_size,
     submitted |-> done.submitted,
     outcome |-> done.outcome,
     result |-> done.embeddings,
     requests |-> done.requests,
     healthy |-> cache_enabled /\ redis_up,
     cached_before |-> EmbeddedTexts(redis),
     written |-> {t \in EmbedTexts :
                    /\ _make_key("emb", t) \in DOMAIN done.keys
                    /\ _make_key("emb", t) \notin DOMAIN redis}]

\* what is kept of the call before the last: only calls on a single text are kept
PreviousCall(c) ==
    IF c = None THEN None
    ELSE IF Len(c.texts) # 1 THEN None
    ELSE [texts |-> c.texts, outcome |-> c.outcome, requests |-> c.requests,
          healthy |-> c.healthy, cached_before |-> c.cached_before]

\* CacheManager.__init__ at the start of a process, with settings.redis_enabled:
\* a failing ping disables the cache
CacheManagerInit ==
    /\ \E redis_enabled \in BOOLEAN : cache_enabled' = (redis_enabled /\ redis_up)
    /\ emb_call' = None
    /\ emb_prev' = None
    /\ UNCHANGED <<redis_up, redis, chunkerVars, validatorVars, engineVars>>

\* the Redis server goes away or comes back
RedisUpOrDown ==
    /\ redis_up' = ~redis_up
    /\ emb_call' = None
    /\ emb_prev' = None
    /\ UNCHANGED <<cache_enabled, redis, chunkerVars, validatorVars, engineVars>>

\* the time-to-live of a key ends
KeyExpires ==
    /\ \E key \in DOMAIN redis :
        redis' = [k \in DOMAIN redis \ {key} |-> redis[k]]
    /\ emb_call' = None
    /\ emb_prev' = None
    /\ UNCHANGED <<cache_enabled, redis_up, chunkerVars, validatorVars, engineVars>>

\* BatchEmbeddingWrapper(embed_model).get_text_embedding_batch(texts)
GetTextEmbeddingBatchCall ==
    \E batch_size \in BatchSizes, texts \in TextListsUpTo(MaxTexts), fail_at \in FailAt :
        LET done == get_text_embedding_batch(batch_size, TheCache, fail_at, texts)
        IN /\ redis' = done.keys
           /\ emb_call' = EmbedCallRecord(batch_size, texts, done)
           /\ emb_prev' = PreviousCall(emb_call)
           /\ UNCHANGED <<cache_enabled, redis_up, chunkerVars, validatorVars, engineVars>>

(***************************************************************************)
(* The engine (sheet_rag_engine.py)                                        *)
(***************************************************************************)
\* SheetRAGEngine.LAYERS
LAYERS == <<"sentence", "paragraph", "section", "summary">>

\* layer_to_key of add_documents
LayerToKey ==
    [sentence |-> "sentences", paragraph |-> "paragraphs", section |-> "sections",
     summary |-> "summaries"]

\* min_layers=2 of self.validator
EngineMinLayers == 2

\* a validator that asks for one layer only
EngineValidatorOneLayer == CrossLayerValidator(<<>>, <<1, 2>>, 1)

\* self.validator of __init__
EngineValidator == CrossLayerValidator(<<>>, <<1, 2>>, EngineMinLayers)

\* ChunkNode.to_document: the text, and the metadata with the chunk's id, level and
\* parent; the Document is given no id of its own
to_document(chunk) ==
    [text |-> chunk.text,
     metadata |-> chunk.metadata
                    @@ [chunk_id |-> chunk.id, level |-> chunk.level,
                        parent_id |-> chunk.parent_id]]

ToDocuments(chunks) ==
    [level \in DOMAIN chunks |->
        [k \in 1..Len(chunks[level]) |-> to_document(chunks[level][k])]]

\* create_hierarchical_chunks(documents): a chunker with the default config
create_hierarchical_chunks(docs) ==
    ToDocuments(Combine(EmptyResult, DocChunks(DefaultSummaryTarget, docs)))

\* VectorStoreIndex.from_documents(layer_docs) and self.indexes[layer].insert(doc):
\* each Document becomes a record under an id made for it, the ids after `ids`;
\* no record is looked up or replaced
InsertDocuments(records, layer_docs, ids) ==
    records \o [k \in 1..Len(layer_docs) |->
                  [id_ |-> ids + k, text |-> layer_docs[k].text,
                   metadata |-> layer_docs[k].metadata]]

\* the collections and the ids handed out
EngineStore(colls, ids) == [collections |-> colls, node_ids |-> ids]

\* "for layer in self.LAYERS" of add_documents, from layer k on; a layer that got
\* no chunks is skipped
RECURSIVE AddLayers(_, _, _)
AddLayer(store, chunks_by_level, k, layer_docs) ==
    AddLayers(EngineStore([l \in LayerNames |->
                              IF l = LAYERS[k]
                              THEN InsertDocuments(store.collections[l], layer_docs,
                                                   store.node_ids)
                              ELSE store.collections[l]],
                          store.node_ids + Len(layer_docs)),
              chunks_by_level, k + 1)

AddLayers(store, chunks_by_level, k) ==
    IF k > Len(LAYERS) THEN store
    ELSE AddLayer(store, chunks_by_level, k, chunks_by_level[LayerToKey[LAYERS[k]]])

add_documents(store, docs) == AddLayers(store, create_hierarchical_chunks(docs), 1)

\* self.collections[layer].count(), for each layer
Counts(colls) == [layer \in LayerNames |-> Len(colls[layer])]

\* sum(self.collections[layer].count() for layer in self.LAYERS)
TotalChunks(colls) ==
    Len(colls.sentence) + Len(colls.paragraph) + Len(colls.section) + Len(colls.summary)

\* the score the retriever gives the nodes of a layer for the query of the model
RetrieverScore ==
    [sentence |-> <<9, 10>>, paragraph |-> <<4, 5>>, section |-> <<7, 10>>,
     summary |-> <<3, 5>>]

\* retriever.retrieve(query_text) with similarity_top_k = top_k: the top_k nearest
\* records; the records of a layer are equally near to the query of the model
Retrieve(records, top_k) == SubSeq(records, 1, Min2(top_k, Len(records)))

\* node.node.metadata.get(key, default)
MetadataGet(metadata, key, default) ==
    IF key \in DOMAIN metadata THEN metadata[key] ELSE default

create_scored_chunks_from_nodes(nodes, level) ==
    [k \in 1..Len(nodes) |->
        ScoredChunk(MetadataGet(nodes[k].metadata, "chunk_id", nodes[k].id_),
                    nodes[k].text, level, RetrieverScore[level],
                    MetadataGet(nodes[k].metadata, "parent_id", None),
                    nodes[k].metadata)]

_search_layer(colls, layer, top_k) ==
    IF Len(colls[layer]) = 0 THEN <<>>
    ELSE create_scored_chunks_from_nodes(Retrieve(colls[layer], top_k), layer)

\* layer_results after "for layer in self.LAYERS"
SearchLayers(colls, top_k) ==
    [layer \in LayerNames |-> _search_layer(colls, layer, top_k)]

\* the greatest and the least of the numbers f[x], x in S
RMaxOf(f, S) == f[CHOOSE x \in S : \A y \in S : RLeq(f[y], f[x])]

RMinOf(f, S) == f[CHOOSE x \in S : \A y \in S : RLeq(f[x], f[y])]

\* CrossLayerValidator.get_validation_summary
get_validation_summary(results) ==
    IF results = <<>> THEN [count |-> 0]
    ELSE [count |-> Len(results),
          avg_confidence |->
              RDiv(RSum([i \in DOMAIN results |-> results[i].confidence_score],
                        DOMAIN results),
                   Rat(Len(results), 1)),
          max_confidence |->
              RMaxOf([i \in DOMAIN results |-> results[i].confidence_score],
                     DOMAIN results),
          min_confidence |->
              RMinOf([i \in DOMAIN results |-> results[i].confidence_score],
                     DOMAIN results),
          avg_layer_coverage |->
              RDiv(RSum([i \in DOMAIN results |-> Rat(results[i].layer_coverage, 1)],
                        DOMAIN results),
                   Rat(Len(results), 1)),
          fully_validated |->
              Cardinality({i \in DOMAIN results : results[i].layer_coverage >= 3}),
          by_primary_level |->
              [level \in LayerNames |->
                  Cardinality({i \in DOMAIN results :
                                 results[i].primary_chunk.level = level})]]

\* the context without looking at the validated results
ContextFromParagraphs(validated_results, layer_res, top_k) ==
    Prefix(layer_res.paragraph, top_k)

\* context_chunks of "if use_cross_validation": the primaries of the first top_k
\* validated results, or, when nothing was validated, the first top_k paragraphs
ContextChunks(validated_results, layer_res, top_k) ==
    IF validated_results # <<>>
    THEN [k \in 1..Min2(top_k, Len(validated_results)) |->
            validated_results[k].primary_chunk]
    ELSE Prefix(layer_res.paragraph, top_k)

\* validation_summary of "if use_cross_validation"
ValidationSummary(validated_results) ==
    IF validated_results # <<>> THEN get_validation_summary(validated_results)
    ELSE [fallback_used |-> TRUE] @@ get_validation_summary(validated_results)

\* the responses; a response is the list of the pieces its text is made of
EmptyIndexResponse ==
    <<"The Sheet RAG index is empty. Please ingest some papers first.">>

NoContextResponse ==
    <<"I couldn't find relevant information to answer your question with sufficient confidence.">>

\* str(response).strip(), what the LLM completed the prompt with
LlmResponse == <<"answer">>

\* f"Error generating response: {str(e)}"
ErrorResponse == <<"Error generating response: ", "remote error">>

\* context_parts: "[Source i - level]\ntext" for the i-th chunk
ContextParts(context_chunks) ==
    [i \in 1..Len(context_chunks) |->
        [source |-> i, level |-> context_chunks[i].level, text |-> context_chunks[i].text]]

\* _generate_response: the response, and the prompt the LLM was called with (None
\* when it was not called)
_generate_response(query_text, context_chunks, llm_raises) ==
    IF context_chunks = <<>>
    THEN [response |-> NoContextResponse, prompt |-> None, llm_calls |-> 0,
          llm_raised |-> FALSE]
    ELSE [response |-> IF llm_raises THEN ErrorResponse ELSE LlmResponse,
          prompt |-> [context |-> ContextParts(context_chunks), question |-> query_text],
          llm_calls |-> 1,
          llm_raised |-> llm_raises]

\* "a in b" for two texts
IsSubstring(a, b) ==
    \E i \in 0..(Len(b) - Len(a)) : SubSeq(b, i + 1, i + Len(a)) = a

\* chunk.text[:500] + ("..." if len(chunk.text) > 500 else "")
SourceTextLen == 500

\* "len(chunk.text) > 50 and chunk.text[:50] in seen"
DedupPrefixLen == 50

\* is_duplicate after "for seen in seen_texts"
IsDuplicate(text, seen_texts) ==
    \E seen \in seen_texts :
        \/ IsSubstring(text, seen)
        \/ IsSubstring(seen, text)
        \/ (Len(text) > DedupPrefixLen /\ IsSubstring(Prefix(text, DedupPrefixLen), seen))

\* validation_map: the validation info of each validated primary, the last result
\* of a chunk id over the earlier ones
ValidationMap(validated_results) ==
    [id \in {validated_results[i].primary_chunk.chunk_id : i \in DOMAIN validated_results} |->
        LET r == validated_results[SetMax({i \in DOMAIN validated_results :
                                              validated_results[i].primary_chunk.chunk_id = id})]
        IN [confidence |-> r.confidence_score,
            layer_coverage |-> r.layer_coverage,
            supporting_layers |->
                SelectSeq(LAYERS, LAMBDA l : l \in DOMAIN r.supporting_chunks)]]

\* the metadata of a source: without chunk_id and parent_id, with the level
SourceMetadata(chunk) ==
    [k \in (DOMAIN chunk.metadata \ {"chunk_id", "parent_id"}) \cup {"level"} |->
        IF k = "level" THEN chunk.level ELSE chunk.metadata[k]]

SourceText(text) ==
    Prefix(text, SourceTextLen)
        \o (IF Len(text) > SourceTextLen THEN <<".", ".", ".">> ELSE <<>>)

\* the source made of chunk; "validation" is there when the chunk was validated
Source(chunk, validation_map) ==
    IF chunk.chunk_id \in DOMAIN validation_map
    THEN [text |-> SourceText(chunk.text), level |-> chunk.level, score |-> chunk.score,
          chunk_id |-> chunk.chunk_id, metadata |-> SourceMetadata(chunk),
          validation |-> validation_map[chunk.chunk_id]]
    ELSE [text |-> SourceText(chunk.text), level |-> chunk.level, score |-> chunk.score,
          chunk_id |-> chunk.chunk_id, metadata |-> SourceMetadata(chunk)]

\* "for chunk in chunks" of _format_sources from chunk k on
RECURSIVE SourcesLoop(_, _, _, _, _)
SourcesLoop(chunks, k, validation_map, seen_texts, unique_sources) ==
    IF k > Len(chunks) THEN unique_sources
    ELSE IF IsDuplicate(chunks[k].text, seen_texts)
    THEN SourcesLoop(chunks, k + 1, validation_map, seen_texts, unique_sources)
    ELSE SourcesLoop(chunks, k + 1, validation_map, seen_texts \cup {chunks[k].text},
                     Append(unique_sources, Source(chunks[k], validation_map)))

\* _format_sources; validated_results is None (the empty list) without validation
_format_sources(chunks, validated_results) ==
    SourcesLoop(chunks, 1, ValidationMap(validated_results), {}, <<>>)

\* cache_key = f"sheet_rag:{query_text}:{top_k}:{use_cross_validation}"
QueryCacheKey(query_text, top_k, use_cross_validation) ==
    <<"sheet_rag", query_text, top_k, use_cross_validation>>

\* what a query call did: its result, the keys of the cache afterwards, and how it
\* went: the calls it made to the cache, to the retriever (layers searched), to the
\* validator and to the LLM, with what they were given and what they gave
QueryDone(res, keys, cache_gets, cache_sets, searched, layer_res, validator_calls, validated_results, context_chunks, generated) ==
    [result |-> res, keys |-> keys, cache_gets |-> cache_gets, cache_sets |-> cache_sets,
     retriever_calls |-> searched, layer_results |-> layer_res,
     validator_calls |-> validator_calls, validated_results |-> validated_results,
     context_chunks |-> context_chunks, prompt |-> generated.prompt,
     llm_calls |-> generated.llm_calls, llm_raised |-> generated.llm_raised]

\* nothing was generated
NotGenerated == [prompt |-> None, llm_calls |-> 0, llm_raised |-> FALSE]

\* the empty-index return, before the cache is looked at
EmptyIndexReturn(cache) ==
    QueryDone([response |-> EmptyIndexResponse, sources |-> <<>>, validation |-> None],
              cache.keys, 0, 0, 0, None, 0, None, None, NotGenerated)

\* the cache looked at before the index is known to be empty
QueryCacheFirst(colls, cache, cache_key, cached) ==
    IF cached # None
    THEN QueryDone(cached, cache.keys, 1, 0, 0, None, 0, None, None, NotGenerated)
    ELSE QueryDone([response |-> EmptyIndexResponse, sources |-> <<>>, validation |-> None],
                   cache.keys, 1, 0, 0, None, 0, None, None, NotGenerated)

\* "if total_chunks == 0: return {...}"
QueryEmptyIndex(colls, cache, cache_key, cached) == EmptyIndexReturn(cache)

\* from "result = {...}" on: the result is cached and returned
QueryFinish(cache, cache_key, layer_res, validator_calls, validated_results, context_chunks, validation_summary, generated, sources) ==
    QueryDone([response |-> generated.response, sources |-> sources,
               validation |-> validation_summary,
               layers_searched |-> [layer \in DOMAIN layer_res |-> Len(layer_res[layer])]],
              set_query_result(cache, cache_key,
                               [response |-> generated.response, sources |-> sources,
                                validation |-> validation_summary,
                                layers_searched |->
                                    [layer \in DOMAIN layer_res |-> Len(layer_res[layer])]]),
              1, 1, Cardinality({l \in DOMAIN layer_res : layer_res[l] # <<>>}),
              layer_res, validator_calls, validated_results, context_chunks, generated)

\* from "response = self._generate_response(...)" on
QueryGenerate(cache, cache_key, query_text, use_cross_validation, llm_raises, layer_res, validator_calls, validated_results, context_chunks, validation_summary) ==
    QueryFinish(cache, cache_key, layer_res, validator_calls, validated_results,
                context_chunks, validation_summary,
                _generate_response(query_text, context_chunks, llm_raises),
                _format_sources(context_chunks,
                                IF use_cross_validation THEN validated_results ELSE None))

\* "if use_cross_validation:" with the validator's output
QueryValidated(cache, cache_key, query_text, top_k, llm_raises, layer_res, validated_results) ==
    QueryGenerate(cache, cache_key, query_text, TRUE, llm_raises, layer_res, 1,
                  validated_results, ContextChunks(validated_results, layer_res, top_k),
                  ValidationSummary(validated_results))

\* from "if use_cross_validation:" on, with the layers searched
QuerySearched(cache, cache_key, query_text, top_k, use_cross_validation, llm_raises, layer_res) ==
    IF use_cross_validation
    THEN QueryValidated(cache, cache_key, query_text, top_k, llm_raises, layer_res,
                        validate_bidirectional(EngineValidator, layer_res, <<>>))
    ELSE QueryGenerate(cache, cache_key, query_text, FALSE, llm_raises, layer_res, 0,
                       <<>>, Prefix(layer_res.paragraph, top_k),
                       [validation_disabled |-> TRUE])

\* from "cached = self.cache.get_query_result(cache_key)" on
QueryNotEmpty(colls, cache, cache_key, query_text, top_k, use_cross_validation, llm_raises, cached) ==
    IF cached # None
    THEN QueryDone(cached, cache.keys, 1, 0, 0, None, 0, None, None, NotGenerated)
    ELSE QuerySearched(cache, cache_key, query_text, top_k, use_cross_validation,
                       llm_raises, SearchLayers(colls, top_k))

\* SheetRAGEngine.query; llm_raises: self.llm.complete raises when it is called
query(colls, cache, query_text, top_k, use_cross_validation, llm_raises) ==
    IF TotalChunks(colls) = 0
    THEN QueryEmptyIndex(colls, cache,
                         QueryCacheKey(query_text, top_k, use_cross_validation),
                         get_query_result(cache, QueryCacheKey(query_text, top_k,
                                                               use_cross_validation)))
    ELSE QueryNotEmpty(colls, cache,
                       QueryCacheKey(query_text, top_k, use_cross_validation),
                       query_text, top_k, use_cross_validation, llm_raises,
                       get_query_result(cache, QueryCacheKey(query_text, top_k,
                                                             use_cross_validation)))

\* no layer is taken for unknown
UnknownLayerNever(layer) == FALSE

\* "if layer not in self.LAYERS"
UnknownLayer(layer) == layer \notin Elems(LAYERS)

\* what a clear_layer call did: whether it raised, and the collections afterwards
ClearLayerDone(raised, colls) == [raised |-> raised, collections |-> colls]

\* clear_layer: an unknown layer raises ValueError; else the collection is deleted
\* and created again. delete_collection raises for a collection that does not
\* exist, which "except" prints.
clear_layer(colls, layer) ==
    IF UnknownLayer(layer) THEN ClearLayerDone(TRUE, colls)
    ELSE IF layer \notin DOMAIN colls THEN ClearLayerDone(FALSE, colls)
    ELSE ClearLayerDone(FALSE, [l \in LayerNames |-> IF l = layer THEN <<>> ELSE colls[l]])

\* clear_all: every collection is deleted and created again
clear_all(colls) == [l \in LayerNames |-> <<>>]

(***************************************************************************)
(* The inputs of the engine                                                *)
(***************************************************************************)
\* the documents ingested: a paragraph of two sentences, of which the second is
\* too short for a sentence chunk
EngineDocuments == {<<[text |-> LineTwoSentences, metadata |-> <<>>]>>}

\* the most record ids handed out
MaxRecords == 8

QueryTexts == {<<"c", "a", "t", "?">>}

\* the layer names clear_layer is called with: the four layers, a key of the
\* chunker's result and a name that is neither
LayerArgs == LayerNames \cup {"sentences", "chapter"}

TopKs == {1, 2}

\* "top_k: int = 5" of query
DefaultTopK == 5

(***************************************************************************)
(* The engine as a state machine                                           *)
(***************************************************************************)
\* a fresh engine over an empty persist directory
EngineIdle ==
    /\ collections = [layer \in LayerNames |-> <<>>]
    /\ node_ids = 0
    /\ ingest = None
    /\ q_call = None
    /\ cl_call = None
    /\ fs_call = None

\* no engine call is returning
EngineReady == q_call = None /\ cl_call = None /\ fs_call = None

\* the record of an add_documents call; repeated: the call before it ingested the
\* same documents and nothing was cleared in between
IngestRecord(docs, before, after) ==
    [documents |-> docs, before |-> Counts(before), after |-> Counts(after),
     repeated |-> (ingest # None /\ ingest.documents = docs)]

\* engine.add_documents(documents)
AddDocumentsCall ==
    /\ EngineReady
    /\ \E docs \in EngineDocuments :
        LET store == add_documents(EngineStore(collections, node_ids), docs)
        IN /\ store.node_ids <= MaxRecords
           /\ collections' = store.collections
           /\ node_ids' = store.node_ids
           /\ ingest' = IngestRecord(docs, collections, store.collections)
           /\ UNCHANGED <<q_call, cl_call, fs_call, chunkerVars, validatorVars, cacheVars,
                          embedderVars>>

\* engine.clear_layer(layer)
ClearLayerCall ==
    /\ EngineReady
    /\ \E layer \in LayerArgs :
        LET done == clear_layer(collections, layer)
        IN /\ collections' = done.collections
           /\ cl_call' = [layer |-> layer, raised |-> done.raised, before |-> collections]
           /\ ingest' = IF done.raised THEN ingest ELSE None
           /\ UNCHANGED <<node_ids, q_call, fs_call, chunkerVars, validatorVars, cacheVars,
                          embedderVars>>

\* the caller has the outcome of clear_layer
ClearLayerReturn ==
    /\ cl_call # None
    /\ cl_call' = None
    /\ UNCHANGED <<collections, node_ids, ingest, q_call, fs_call, chunkerVars,
                   validatorVars, cacheVars, embedderVars>>

\* engine.clear_all()
ClearAllCall ==
    /\ EngineReady
    /\ collections' = clear_all(collections)
    /\ ingest' = None
    /\ UNCHANGED <<node_ids, q_call, cl_call, fs_call, chunkerVars, validatorVars,
                   cacheVars, embedderVars>>

\* engine.query(query_text, top_k, use_cross_validation) with top_k from top_ks and
\* use_cross_validation from flags
QueryWith(top_ks, flags) ==
    /\ EngineReady
    /\ \E query_text \in QueryTexts, top_k \in top_ks, use_cross_validation \in flags,
          llm_raises \in BOOLEAN :
        LET done == query(collections, TheCache, query_text, top_k,
                          use_cross_validation, llm_raises)
        IN /\ q_call' = [query_text |-> query_text, top_k |-> top_k,
                         use_cross_validation |-> use_cross_validation,
                         total_chunks |-> TotalChunks(collections),
                         result |-> done.result, cache_gets |-> done.cache_gets,
                         cache_sets |-> done.cache_sets,
                         retriever_calls |-> done.retriever_calls,
                         layer_results |-> done.layer_results,
                         validator_calls |-> done.validator_calls,
                         validated_results |-> done.validated_results,
                         context_chunks |-> done.context_chunks,
                         prompt |-> done.prompt, llm_calls |-> done.llm_calls,
                         llm_raised |-> done.llm_raised,
                         written |-> (done.keys # redis)]
           /\ redis' = done.keys
           /\ UNCHANGED <<collections, node_ids, ingest, cl_call, fs_call, cache_enabled,
                          redis_up, chunkerVars, validatorVars, embedderVars>>

\* texts for _format_sources: LongRun is as long as the compared prefix; TextInner
\* holds it after its first character, TextStartsA and TextStartsB start with it
LongRun == [i \in 1..DedupPrefixLen |-> IF i = 1 THEN "h" ELSE "p"]

TextInner == <<"x">> \o LongRun \o <<"y">>

TextStartsA == LongRun \o <<"z">>

TextStartsB == LongRun \o <<"w">>

TextShort == <<"d", " ", "e">>

TextShortPart == <<"d">>

SourceTexts == {TextInner, TextStartsA, TextStartsB, TextShort, TextShortPart}

\* a retrieved chunk with text, named after it
SourceChunk(text) == ScoredChunk(<<"paragraph", 0, text>>, text, "paragraph", <<1, 2>>, None, <<>>)

\* the most chunks handed to _format_sources
MaxSources == 3

RECURSIVE SourceListsUpTo(_)
SourceListsUpTo(n) ==
    IF n = 0 THEN {<<>>}
    ELSE SourceListsUpTo(n - 1)
            \cup {Append(l, SourceChunk(t)) : l \in SourceListsUpTo(n - 1), t \in SourceTexts}

\* engine._format_sources(chunks)
FormatSourcesCall ==
    /\ EngineReady
    /\ \E chunks \in SourceListsUpTo(MaxSources) :
        /\ fs_call' = [chunks |-> chunks, sources |-> _format_sources(chunks, None)]
        /\ UNCHANGED <<collections, node_ids, ingest, q_call, cl_call, chunkerVars,
                       validatorVars, cacheVars, embedderVars>>

\* the caller has the sources
FormatSourcesReturn ==
    /\ fs_call # None
    /\ fs_call' = None
    /\ UNCHANGED <<collections, node_ids, ingest, q_call, cl_call, chunkerVars,
                   validatorVars, cacheVars, embedderVars>>

QueryCall == QueryWith(TopKs, BOOLEAN)

\* engine.query(query_text), top_k and use_cross_validation left to their defaults
QueryDefaultCall == QueryWith({DefaultTopK}, {TRUE})

\* the caller is done with the result
QueryReturn ==
    /\ q_call # None
    /\ q_call' = None
    /\ UNCHANGED <<collections, node_ids, ingest, cl_call, fs_call, chunkerVars,
                   validatorVars, cacheVars, embedderVars>>

(***************************************************************************)
(* Specifications                                                          *)
(***************************************************************************)
Init == ChunkerIdle /\ ValidatorIdle /\ CacheIdle /\ EmbedderIdle /\ EngineIdle

NextChunker == ChunkDocumentCall \/ ChunkDocumentsCall \/ ChunkerReturn

NextValidator == ValidateCall \/ ValidateBidirectionalCall \/ ValidatorReturn

Next == NextChunker \/ NextValidator

Spec == Init /\ [][Next]_vars

\* the chunker alone
SpecChunker == Init /\ [][NextChunker]_vars

\* the validator alone
SpecValidator == Init /\ [][NextValidator]_vars

NextEmbedder ==
    CacheManagerInit \/ RedisUpOrDown \/ KeyExpires \/ GetTextEmbeddingBatchCall

\* the batch embedder and the cache
SpecEmbedder == Init /\ [][NextEmbedder]_vars

NextEngine ==
    \/ AddDocumentsCall
    \/ ClearLayerCall
    \/ ClearLayerReturn
    \/ ClearAllCall
    \/ QueryCall
    \/ QueryReturn

\* the engine with the cache as settings.redis_enabled = False leaves it
SpecEngine == Init /\ [][NextEngine]_vars

NextSummaryLoop == SummaryLoopStart \/ SummaryLoopStep \/ SummaryLoopReturn

\* the while loop of the summary chunks, one iteration a step
SpecSummaryLoop == Init /\ [][NextSummaryLoop]_vars

NextSources == FormatSourcesCall \/ FormatSourcesReturn

\* _format_sources alone
SpecSources == Init /\ [][NextSources]_vars

NextEngineCached ==
    \/ CacheManagerInit
    \/ KeyExpires
    \/ AddDocumentsCall
    \/ ClearAllCall
    \/ QueryDefaultCall
    \/ QueryReturn

\* the engine queried with the defaults, with the cache
SpecEngineCached == Init /\ [][NextEngineCached]_vars

(***************************************************************************)
(* Claims about the chunker (checked under SpecChunker)                    *)
(***************************************************************************)
IdsOf(chunks) == {chunks[i].id : i \in DOMAIN chunks}

\* the ids, in order, of the chunks whose parent_id is id
RECURSIVE IdsWithParent(_, _)
IdsWithParent(chunks, id) ==
    IF chunks = <<>> THEN <<>>
    ELSE (IF Head(chunks).parent_id = id THEN <<Head(chunks).id>> ELSE <<>>)
         \o IdsWithParent(Tail(chunks), id)

FinerChunksParentsExist ==
    /\ \A c \in Elems(result.sentences) : c.parent_id \in IdsOf(result.paragraphs)
    /\ \A c \in Elems(result.paragraphs) : c.parent_id \in IdsOf(result.sections)

\* C1 as stated: every sentence's parent_id is the id of a paragraph of the output,
\* every paragraph's the id of a section of the output, every section's the id of
\* the first summary chunk of its document, and only summary chunks have no parent_id.
C1_EveryChunkHasItsParent ==
    /\ FinerChunksParentsExist
    /\ \A k \in DOMAIN doc_chunks : \A c \in Elems(doc_chunks[k].sections) :
          /\ doc_chunks[k].summaries # <<>>
          /\ c.parent_id = doc_chunks[k].summaries[1].id
    /\ \A level \in ResultLevels \ {"summaries"} : \A c \in Elems(result[level]) :
          c.parent_id # None

\* C1 amended: as C1, but a section's parent_id is the id of the first summary chunk
\* of its document only when the document has summary chunks; the sections of a
\* document without summary chunks have no parent_id, and they and the summary
\* chunks are the only chunks without one.
C1_ParentsExistWhenSummaryPresent ==
    /\ FinerChunksParentsExist
    /\ \A k \in DOMAIN doc_chunks : \A c \in Elems(doc_chunks[k].sections) :
          c.parent_id = IF doc_chunks[k].summaries # <<>>
                        THEN doc_chunks[k].summaries[1].id ELSE None
    /\ \A c \in Elems(result.sentences) \cup Elems(result.paragraphs) : c.parent_id # None
    /\ \A c \in Elems(result.summaries) : c.parent_id = None

\* a call that made sentences, paragraphs, sections and more than one summary chunk
C1_Witness ==
    /\ call = "chunk_document"
    /\ result.sentences # <<>>
    /\ Len(result.sections) >= 2
    /\ Len(result.summaries) >= 2
    /\ \A c \in Elems(result.sections) : c.parent_id = result.summaries[1].id

\* C2 as stated: the children_ids of every section, paragraph and summary chunk are,
\* in order, the ids of the chunks one level finer whose parent_id is its id.
C2_ChildrenMirrorParents ==
    /\ \A p \in Elems(result.paragraphs) :
          p.children_ids = IdsWithParent(result.sentences, p.id)
    /\ \A p \in Elems(result.sections) :
          p.children_ids = IdsWithParent(result.paragraphs, p.id)
    /\ \A p \in Elems(result.summaries) :
          p.children_ids = IdsWithParent(result.sections, p.id)

\* C3 as stated: in the output of one call no two chunks of a level have the same id.
C3_IdsUniqueInBatch ==
    \A level \in ResultLevels : \A i, j \in DOMAIN result[level] :
        i # j => result[level][i].id # result[level][j].id

\* the id, parent_id and children_ids of every chunk of every level of res
Identity(res) ==
    [level \in ResultLevels |->
        [i \in DOMAIN res[level] |->
            <<res[level][i].id, res[level][i].parent_id, res[level][i].children_ids>>]]

C5_EmptyTextNoChunks ==
    (call = "chunk_document" /\ documents[1].text = <<>>) =>
        \A level \in ResultLevels : result[level] = <<>>

(***************************************************************************)
(* Claims about the validator (checked under SpecValidator)                *)
(***************************************************************************)
\* the primary chunks of the call: those of primary_level for validate, those
\* of the three passes for validate_bidirectional
CallPrimaries ==
    IF vcall = "validate" THEN Elems(PrimaryChunks(layer_results, vprimary_level))
    ELSE UNION {Elems(PrimaryChunks(layer_results, BidirectionalLevels[k])) :
                   k \in DOMAIN BidirectionalLevels}

\* 1 + the number of levels that support p in the layer_results of the call
CoverageOf(p) ==
    1 + Cardinality(DOMAIN _find_supporting_chunks(validator, p, layer_results,
                                                   vembeddings))

\* C6: every result of validate and of validate_bidirectional has
\* layer_coverage = 1 + the number of its supporting levels, and that is at
\* least min_layers; a primary chunk whose coverage is below min_layers is the
\* primary chunk of no result.
C6_CoverageAtLeastMinLayers ==
    /\ \A i \in DOMAIN vresults :
          /\ vresults[i].layer_coverage
                = 1 + Cardinality(DOMAIN vresults[i].supporting_chunks)
          /\ vresults[i].layer_coverage >= validator.min_layers
    /\ \A p \in CallPrimaries :
          CoverageOf(p) < validator.min_layers
              => \A i \in DOMAIN vresults : vresults[i].primary_chunk # p

\* a validate call with min_layers = 2 that dropped a sentence without support
\* and returned another one
C6_Witness ==
    /\ vcall = "validate"
    /\ validator.min_layers = 2
    /\ vprimary_level = "sentence"
    /\ vresults # <<>>
    /\ \E p \in CallPrimaries : CoverageOf(p) = 1

\* C7: the confidence_score of every result lies in [0, 1], whatever the number
\* of supporting levels; the scores of the chunks are in [0, 1] and the layer
\* weights are not negative.
C7_ConfidenceInUnitInterval ==
    \A i \in DOMAIN vresults :
        /\ RLeq(Zero, vresults[i].confidence_score)
        /\ RLeq(vresults[i].confidence_score, One)

\* a validate call that returned a result with three supporting levels and a
\* confidence_score of 1, the value the clamp allows at most
C7_Witness ==
    /\ vcall = "validate"
    /\ \E i \in DOMAIN vresults :
          /\ vresults[i].layer_coverage = 4
          /\ vresults[i].confidence_score = One

\* the validator of the call with t for its support_threshold
WithThreshold(t) == [validator EXCEPT !.support_threshold = t]

\* the chunks of the layer_results of the call
CallChunks == UNION {Elems(layer_results[level]) : level \in DOMAIN layer_results}

\* C8: for every chunk p of the layer_results of a call and thresholds t1 <= t2,
\* the levels that support p at threshold t2 are among those at threshold t1.
C8_SupportShrinksWithThreshold ==
    \A p \in CallChunks :
        LET best == BestPerLevel(p, layer_results, vembeddings)
            levels == [t \in Thresholds |-> DOMAIN Supporting(WithThreshold(t), best)]
        IN \A t1, t2 \in Thresholds : RLeq(t1, t2) => levels[t2] \subseteq levels[t1]

\* a call with a sentence that has more supporting levels at the default
\* threshold than at threshold 1, and some at threshold 1
C8_Witness ==
    /\ vcall # "none"
    /\ \E p \in CallChunks :
          LET best == BestPerLevel(p, layer_results, vembeddings)
          IN /\ DOMAIN Supporting(WithThreshold(One), best) # {}
             /\ DOMAIN Supporting(WithThreshold(One), best)
                   # DOMAIN Supporting(WithThreshold(DEFAULT_SUPPORT_THRESHOLD), best)

\* the results of the passes of validate_bidirectional, pass after pass
RECURSIVE PassResults(_)
PassResults(k) ==
    IF k > Len(BidirectionalLevels) THEN <<>>
    ELSE (IF BidirectionalLevels[k] \in DOMAIN layer_results
          THEN validate(validator, layer_results, BidirectionalLevels[k], vembeddings)
          ELSE <<>>)
         \o PassResults(k + 1)

\* the first result of results whose primary chunk has the id chunk_id
FirstWithId(results, chunk_id) ==
    results[SetMin({k \in DOMAIN results : results[k].primary_chunk.chunk_id = chunk_id})]

\* C9: no two results of validate_bidirectional have the same
\* primary_chunk.chunk_id; the result kept for an id is the first with that id in
\* the passes taken in the order sentence, paragraph, section, and every id of
\* a pass has a result.
C9_NoDuplicateEarliestPassKept ==
    vcall = "validate_bidirectional" =>
        LET passes == PassResults(1)
        IN /\ \A i, j \in DOMAIN vresults :
                 i # j => vresults[i].primary_chunk.chunk_id
                              # vresults[j].primary_chunk.chunk_id
           /\ \A i \in DOMAIN vresults :
                 /\ \E k \in DOMAIN passes : passes[k] = vresults[i]
                 /\ vresults[i] = FirstWithId(passes, vresults[i].primary_chunk.chunk_id)
           /\ \A k \in DOMAIN passes : \E i \in DOMAIN vresults :
                 vresults[i].primary_chunk.chunk_id = passes[k].primary_chunk.chunk_id

\* a validate_bidirectional call where an id qualified in the paragraph pass and
\* in the section pass, and the result of the paragraph pass was kept
C9_Witness ==
    /\ vcall = "validate_bidirectional"
    /\ \E j, k \in DOMAIN PassResults(1) :
          /\ j < k
          /\ PassResults(1)[j].primary_chunk.chunk_id
                = PassResults(1)[k].primary_chunk.chunk_id
          /\ PassResults(1)[j].primary_chunk.level = "paragraph"
          /\ PassResults(1)[k].primary_chunk.level = "section"
          /\ \E i \in DOMAIN vresults : vresults[i] = PassResults(1)[j]

\* the characters in the order of their code points
CodePointOrder ==
    <<"0", "1", "2", "3", "4", "5", "6", "7", "8", "9">> \o UpperChars \o LowerChars

CodePoint(c) == CHOOSE k \in DOMAIN CodePointOrder : CodePointOrder[k] = c

\* a < b for strings
RECURSIVE LexLess(_, _)
LexLess(a, b) ==
    IF b = <<>> THEN FALSE
    ELSE IF a = <<>> THEN TRUE
    ELSE IF Head(a) # Head(b) THEN CodePoint(Head(a)) < CodePoint(Head(b))
    ELSE LexLess(Tail(a), Tail(b))

\* C10 as stated: the results are in the order of descending confidence_score,
\* then of descending primary score, then of ascending chunk id.
C10_SortedWithTieBreaks ==
    \A i, j \in DOMAIN vresults : i < j =>
        \/ RLess(vresults[j].confidence_score, vresults[i].confidence_score)
        \/ /\ vresults[j].confidence_score = vresults[i].confidence_score
           /\ RLess(vresults[j].primary_chunk.score, vresults[i].primary_chunk.score)
        \/ /\ vresults[j].confidence_score = vresults[i].confidence_score
           /\ vresults[j].primary_chunk.score = vresults[i].primary_chunk.score
           /\ ~LexLess(vresults[j].primary_chunk.chunk_id,
                       vresults[i].primary_chunk.chunk_id)

\* the pass of validate_bidirectional that validates the chunks of level
PassOf(level) == CHOOSE k \in DOMAIN BidirectionalLevels : BidirectionalLevels[k] = level

\* where chunk p stands in the list of its level in layer_results
PositionOf(p) ==
    CHOOSE k \in DOMAIN layer_results[p.level] : layer_results[p.level][k] = p

\* whether the result of p was made before that of q: in an earlier pass, or in
\* the same pass from a chunk that stands earlier in the list of the level
MadeBefore(p, q) ==
    \/ PassOf(p.level) < PassOf(q.level)
    \/ p.level = q.level /\ PositionOf(p) < PositionOf(q)

\* C10 amended: the results are in the order of descending confidence_score, and
\* results of equal confidence are in the order they were made in: that of the
\* passes sentence, paragraph, section and, within a pass, that of the input
\* list of the level; neither the primary score nor the chunk id breaks a tie.
C10_SortedByConfidenceStable ==
    \A i, j \in DOMAIN vresults : i < j =>
        \/ RLess(vresults[j].confidence_score, vresults[i].confidence_score)
        \/ /\ vresults[j].confidence_score = vresults[i].confidence_score
           /\ MadeBefore(vresults[i].primary_chunk, vresults[j].primary_chunk)

\* a validate call that returned two results of equal confidence, the one with
\* the lower primary score first, after one of higher confidence
C10_Witness ==
    /\ vcall = "validate"
    /\ \E i, j \in DOMAIN vresults :
          /\ i < j
          /\ vresults[j].confidence_score = vresults[i].confidence_score
          /\ RLess(vresults[i].primary_chunk.score, vresults[j].primary_chunk.score)

(***************************************************************************)
(* Claims about the batch embedder and the cache (checked under            *)
(* SpecEmbedder)                                                           *)
(***************************************************************************)
\* C12: a get_text_embedding_batch call that returns gives one vector per text, in
\* the order of the texts: result[i] is the vector of texts[i], whichever texts
\* were cached and whatever the batch size.
C12_ResultAlignedWithTexts ==
    (emb_call # None /\ emb_call.outcome = "ok") =>
        /\ Len(emb_call.result) = Len(emb_call.texts)
        /\ \A i \in 1..Len(emb_call.texts) :
              emb_call.result[i] = RemoteVector[emb_call.texts[i]]

\* a call that returned after two requests to the embedding service: its second
\* batch was filled in behind the first
C12_Witness ==
    /\ emb_call # None
    /\ emb_call.outcome = "ok"
    /\ emb_call.requests = 2
    /\ emb_call.texts = <<"a", "b">>

\* two calls on the same single text, one right after the other, with the cache
\* enabled and the server answering
HealthyPair ==
    /\ emb_prev # None
    /\ emb_call # None
    /\ emb_call.texts = emb_prev.texts
    /\ emb_prev.healthy
    /\ emb_call.healthy

\* C13 as stated: with a healthy cache, two calls in succession on the same single
\* text make exactly one request to the embedding service between them.
C13_TwoCallsOneRequest ==
    HealthyPair => emb_prev.requests + emb_call.requests = 1

\* C13 as amended: with a healthy cache, when the first of two calls in succession
\* on the same single text returns, the second call makes no request; the first
\* makes one when the text was not cached before it, and none when it was.
C13_SecondCallFromCache ==
    (HealthyPair /\ emb_prev.outcome = "ok") =>
        /\ emb_call.requests = 0
        /\ emb_call.outcome = "ok"
        /\ emb_prev.requests = (IF emb_prev.texts[1] \in emb_prev.cached_before THEN 0 ELSE 1)

\* the first call fetched the vector, the second call right after it did not
C13_Witness ==
    /\ HealthyPair
    /\ emb_prev.outcome = "ok"
    /\ emb_prev.requests = 1
    /\ emb_call.requests = 0

\* C14: a get_text_embedding_batch call during which the embedding service fails
\* raises and has written no entry to the embedding cache, also when an earlier
\* batch of the call had succeeded.
C14_FailedCallWritesNothing ==
    (emb_call # None /\ emb_call.outcome = "error") => emb_call.written = {}

\* the query call at hand searched the layers and called the validator
ValidatedQuery ==
    /\ q_call # None
    /\ q_call.use_cross_validation
    /\ q_call.validator_calls = 1

\* the validated results of the call at hand with the primary of source s
ResultsOf(s) ==
    {i \in DOMAIN q_call.validated_results :
        q_call.validated_results[i].primary_chunk.chunk_id = s.chunk_id}

\* source s is a validated primary with enough layers behind it
HasEvidence(s) ==
    /\ "validation" \in DOMAIN s
    /\ s.validation.layer_coverage >= EngineMinLayers
    /\ \E i \in ResultsOf(s) :
        q_call.validated_results[i].layer_coverage >= EngineMinLayers

\* C11 as stated: with cross-validation on, every source of every query is a
\* primary chunk that passed validation with layer_coverage >= min_layers, also
\* when the validator returned nothing.
C11_EverySourceHasEvidence ==
    ValidatedQuery =>
        \A k \in DOMAIN q_call.result.sources : HasEvidence(q_call.result.sources[k])

\* C11 amended: with cross-validation on, when the validator returned something
\* every source is a primary chunk that passed validation with layer_coverage >=
\* min_layers; when it returned nothing the sources are paragraph results that carry
\* no validation, and the diagnostics say fallback_used.
C11_SourcesValidatedUnlessFallback ==
    ValidatedQuery =>
        IF q_call.validated_results # <<>>
        THEN \A k \in DOMAIN q_call.result.sources :
                HasEvidence(q_call.result.sources[k])
        ELSE /\ "fallback_used" \in DOMAIN q_call.result.validation
             /\ \A k \in DOMAIN q_call.result.sources :
                   /\ "validation" \notin DOMAIN q_call.result.sources[k]
                   /\ q_call.result.sources[k].level = "paragraph"

\* a query whose validator returned nothing while the paragraph layer had results
C11_Witness ==
    /\ ValidatedQuery
    /\ q_call.validated_results = <<>>
    /\ q_call.result.sources # <<>>

\* C15: ingesting the same documents a second time leaves count(level) of every
\* level as it was after the first time.
C15_ReingestKeepsCounts ==
    (ingest # None /\ ingest.repeated) => ingest.after = ingest.before

\* C16: when all four collections are empty, query returns the empty-index response
\* with no sources, and calls neither the retriever nor the validator nor the LLM,
\* and neither reads nor writes the query cache.
C16_EmptyIndexAnswer ==
    (q_call # None /\ q_call.total_chunks = 0) =>
        /\ q_call.result.response = EmptyIndexResponse
        /\ q_call.result.sources = <<>>
        /\ q_call.retriever_calls = 0
        /\ q_call.validator_calls = 0
        /\ q_call.llm_calls = 0
        /\ q_call.cache_gets = 0
        /\ q_call.cache_sets = 0
        /\ ~q_call.written

\* a query of the empty index while the cache holds a result for the same query
C16_Witness ==
    /\ q_call # None
    /\ q_call.total_chunks = 0
    /\ cache_enabled
    /\ _make_key("query", QueryCacheKey(q_call.query_text, q_call.top_k,
                                        q_call.use_cross_validation)) \in DOMAIN redis

\* C17: no entry of the query cache is the result of a query whose LLM call raised,
\* and a query whose LLM call raised writes no entry.
C17_NoFailedResultCached ==
    /\ \A key \in DOMAIN redis :
          key[1] = "query" => redis[key].response # ErrorResponse
    /\ (q_call # None /\ q_call.llm_raised) => ~q_call.written

\* C18: when the LLM call fails the result has the error message as its response
\* and no sources.
C18_LlmErrorNoSources ==
    (q_call # None /\ q_call.llm_raised) =>
        /\ q_call.result.response = ErrorResponse
        /\ q_call.result.sources = <<>>

\* C19: the chunk labelled [Source i] in the prompt is the chunk at index i-1 of
\* the returned sources, for every i.
C19_PromptMatchesSources ==
    (q_call # None /\ q_call.prompt # None) =>
        \A i \in DOMAIN q_call.prompt.context :
            /\ i \in DOMAIN q_call.result.sources
            /\ q_call.result.sources[i].chunk_id = q_call.context_chunks[i].chunk_id
            /\ q_call.result.sources[i].level = q_call.prompt.context[i].level

\* the level and text of the chunks in the prompt of the call at hand
PromptChunks ==
    IF q_call.prompt = None THEN <<>>
    ELSE [i \in DOMAIN q_call.prompt.context |->
            <<q_call.prompt.context[i].level, q_call.prompt.context[i].text>>]

\* the level and text of each chunk of chunks
LevelAndText(chunks) == [i \in DOMAIN chunks |-> <<chunks[i].level, chunks[i].text>>]

\* C20: with cross-validation on, a non-empty validator output gives its first top_k
\* primaries, in its order, as the context and no fallback_used; an empty one gives
\* the first top_k paragraph results as the context and fallback_used = true.
C20_ContextFromValidatorOrParagraphs ==
    ValidatedQuery =>
        IF q_call.validated_results # <<>>
        THEN /\ Len(q_call.context_chunks)
                  = Min2(q_call.top_k, Len(q_call.validated_results))
             /\ \A k \in DOMAIN q_call.context_chunks :
                   q_call.context_chunks[k] = q_call.validated_results[k].primary_chunk
             /\ PromptChunks = LevelAndText(q_call.context_chunks)
             /\ "fallback_used" \notin DOMAIN q_call.result.validation
        ELSE /\ q_call.context_chunks
                  = SubSeq(q_call.layer_results.paragraph, 1,
                           Min2(q_call.top_k, Len(q_call.layer_results.paragraph)))
             /\ PromptChunks = LevelAndText(q_call.context_chunks)
             /\ "fallback_used" \in DOMAIN q_call.result.validation
             /\ q_call.result.validation.fallback_used = TRUE

\* a query whose validator returned more than top_k results, none of them from the
\* paragraph layer first
C20_Witness ==
    /\ ValidatedQuery
    /\ Len(q_call.validated_results) > q_call.top_k
    /\ q_call.context_chunks # <<>>
    /\ q_call.layer_results.paragraph # <<>>
    /\ q_call.context_chunks # SubSeq(q_call.layer_results.paragraph, 1,
                                       Min2(q_call.top_k, Len(q_call.layer_results.paragraph)))

\* the chunk ids held in the store of layer
StoredChunkIds(layer) ==
    {collections[layer][k].metadata.chunk_id : k \in DOMAIN collections[layer]}

\* every record of the finer layer names as its parent a chunk stored in the coarser
ParentsStored(finer, coarser) ==
    \A k \in DOMAIN collections[finer] :
        collections[finer][k].metadata.parent_id \in StoredChunkIds(coarser)

\* C21: after any sequence of add_documents, clear_layer and clear_all, every stored
\* sentence has its parent in the paragraph store, every stored paragraph has its
\* parent in the section store and every stored section has its parent in the
\* summary store.
C21_StoredParentsExist ==
    /\ ParentsStored("sentence", "paragraph")
    /\ ParentsStored("paragraph", "section")
    /\ ParentsStored("section", "summary")

\* C22: chunking the example document with the default configuration yields 1
\* summary chunk, 1 section chunk titled "Introduction", 2 paragraph chunks and 3
\* sentence chunks.
C22_ExampleChunkCounts ==
    (call = "chunk_document" /\ config = DefaultSummaryTarget
        /\ documents = <<ExampleDocument>>) =>
        /\ Len(result.summaries) = 1
        /\ Len(result.sections) = 1
        /\ result.sections[1].metadata.section_title = TitleIntroduction
        /\ Len(result.paragraphs) = 2
        /\ Len(result.sentences) = 3

\* no line of text matches a header pattern
NoHeaderLine(text) ==
    \A n \in DOMAIN SplitLines(text) : ~HeaderMatch(Strip(SplitLines(text)[n])).matched

\* the first line of text that matches a header pattern
FirstHeaderLine(text) ==
    SetMin({n \in DOMAIN SplitLines(text) : HeaderMatch(Strip(SplitLines(text)[n])).matched})

\* the lines before the first header line of text hold more than white space
HasPreamble(text) ==
    /\ ~NoHeaderLine(text)
    /\ \E n \in 1..(FirstHeaderLine(text) - 1) : Strip(SplitLines(text)[n]) # <<>>

\* C23: a non-empty document without a header line is split into one section titled
\* "Content" that holds the whole document, and the text before the first header of
\* a document with headers becomes a section titled "Introduction".
C23_ContentOrIntroduction ==
    (call = "chunk_document" /\ documents[1].text # <<>>) =>
        /\ NoHeaderLine(documents[1].text) =>
              _split_into_sections(documents[1].text)
                  = <<[title |-> TitleContent, content |-> documents[1].text]>>
        /\ HasPreamble(documents[1].text) =>
              _split_into_sections(documents[1].text)[1].title = TitleIntroduction

\* C24: clear_layer called with a name that is none of the four layers raises, and
\* the collections are as they were before the call.
C24_UnknownLayerRaisesNoChange ==
    (cl_call # None /\ cl_call.layer \notin LayerNames) =>
        /\ cl_call.raised
        /\ collections = cl_call.before

\* clear_layer with an unknown name on a store that holds chunks
C24_Witness ==
    /\ cl_call # None
    /\ cl_call.layer \notin LayerNames
    /\ TotalChunks(collections) > 0

\* text is contained in, or contains, one of kept_texts, or starts with the same
\* DedupPrefixLen characters as one of them
SameOrSameStart(text, kept_texts) ==
    \E kept \in kept_texts :
        \/ IsSubstring(text, kept)
        \/ IsSubstring(kept, text)
        \/ Prefix(text, DedupPrefixLen) = Prefix(kept, DedupPrefixLen)

\* the positions of chunks from k on that are kept when a chunk is dropped exactly
\* when SameOrSameStart says so of the texts kept before it
RECURSIVE KeptPositions(_, _, _)
KeptPositions(chunks, k, kept_texts) ==
    IF k > Len(chunks) THEN <<>>
    ELSE IF SameOrSameStart(chunks[k].text, kept_texts)
    THEN KeptPositions(chunks, k + 1, kept_texts)
    ELSE <<k>> \o KeptPositions(chunks, k + 1, kept_texts \cup {chunks[k].text})

\* C27: the sources are the chunks in their order without those whose text is
\* contained in, or contains, the text of a chunk kept before, or whose first 50
\* characters are the first 50 characters of a chunk kept before; no other chunk is
\* dropped.
C27_DroppedExactlyWhenDuplicate ==
    fs_call # None =>
        [k \in DOMAIN fs_call.sources |-> fs_call.sources[k].chunk_id]
            = [k \in DOMAIN KeptPositions(fs_call.chunks, 1, {}) |->
                  fs_call.chunks[KeptPositions(fs_call.chunks, 1, {})[k]].chunk_id]

\* the texts of batches, one batch after the other
RECURSIVE Flatten(_)
Flatten(batches) ==
    IF batches = <<>> THEN <<>> ELSE Head(batches) \o Flatten(Tail(batches))

\* the texts of the call at hand that the cache did not answer, in their order
MissedTexts ==
    SelectSeq(emb_call.texts,
              LAMBDA t : ~(emb_call.healthy /\ t \in emb_call.cached_before))

\* the batches of the call at hand that the embedding service answered
AnsweredBatches ==
    IF emb_call.outcome = "ok" THEN emb_call.submitted
    ELSE SubSeq(emb_call.submitted, 1, Len(emb_call.submitted) - 1)

\* C28: the texts sent to the embedding service are the cache misses in their
\* order, each position once and no cached position, in batches of at most
\* batch_size texts (all of them when the call returns, the first of them when a
\* request fails), and every vector that came back is in the cache under its text.
C28_MissesSubmittedInOrderAndCached ==
    emb_call # None =>
        /\ \A b \in DOMAIN emb_call.submitted :
              /\ Len(emb_call.submitted[b]) >= 1
              /\ Len(emb_call.submitted[b]) <= emb_call.batch_size
        /\ Len(Flatten(emb_call.submitted)) <= Len(MissedTexts)
        /\ Flatten(emb_call.submitted)
              = SubSeq(MissedTexts, 1, Len(Flatten(emb_call.submitted)))
        /\ emb_call.outcome = "ok" => Flatten(emb_call.submitted) = MissedTexts
        /\ emb_call.healthy =>
              \A t \in Elems(Flatten(AnsweredBatches)) :
                  /\ _make_key("emb", t) \in DOMAIN redis
                  /\ redis[_make_key("emb", t)] = RemoteVector[t]

\* a call on a cached text and a missed one: the missed one alone is sent
C28_Witness ==
    /\ emb_call # None
    /\ emb_call.healthy
    /\ emb_call.outcome = "ok"
    /\ emb_call.texts = <<"a", "b">>
    /\ emb_call.cached_before = {"a"}
    /\ emb_call.submitted = <<<<"b">>>>

\* the cache is disabled, or its server does not answer
CacheUnavailable == ~cache_enabled \/ ~redis_up

\* a result a query may have cached
SomeQueryResult == [response |-> LlmResponse, sources |-> <<>>]

\* the cache of the state, holding an entry for query besides
WithQueryEntry(query_key) ==
    CacheManager(cache_enabled, redis_up,
                 (_make_key("query", query_key) :> SomeQueryResult) @@ redis)

\* C25: while the cache is disabled or unreachable, get_embedding and
\* get_query_result return None whatever the database holds, set_embedding and
\* set_query_result leave the database as it is, and an embed call asks the
\* embedding service for every text, writes nothing and raises only when a request
\* to the embedding service raised.
C25_UnavailableCacheMissesSilently ==
    CacheUnavailable =>
        /\ \A t \in EmbedTexts :
              /\ get_embedding(TheCache, t) = None
              /\ set_embedding(TheCache, t, RemoteVector[t]) = redis
        /\ \A query_text \in QueryTexts :
              /\ get_query_result(WithQueryEntry(query_text), query_text) = None
              /\ set_query_result(WithQueryEntry(query_text), query_text, SomeQueryResult)
                    = WithQueryEntry(query_text).keys
              /\ set_query_result(TheCache, query_text, SomeQueryResult) = redis
        /\ emb_call # None =>
              /\ emb_call.written = {}
              /\ Len(Flatten(emb_call.submitted)) <= Len(emb_call.texts)
              /\ Flatten(emb_call.submitted)
                    = SubSeq(emb_call.texts, 1, Len(Flatten(emb_call.submitted)))
              /\ emb_call.outcome = "ok" => Flatten(emb_call.submitted) = emb_call.texts
              /\ emb_call.outcome = "error" => emb_call.submitted # <<>>

\* an embed call that returned while the cache was unavailable and the database
\* held the vector of one of its texts
C25_Witness ==
    /\ CacheUnavailable
    /\ emb_call # None
    /\ emb_call.outcome = "ok"
    /\ emb_call.texts # <<>>
    /\ emb_call.texts[1] \in EmbeddedTexts(redis)

\* the highest adjusted similarity of p with a chunk of chunks
HighestSimilarity(p, chunks) ==
    RMaxOf([k \in DOMAIN chunks |-> CandidateSimilarity(p, chunks[k], vembeddings)],
           DOMAIN chunks)

\* the support found for p at level is a chunk of that level with the highest
\* adjusted similarity
IsBestOfLevel(p, level, support) ==
    /\ support.chunk \in Elems(layer_results[level])
    /\ support.similarity = HighestSimilarity(p, layer_results[level])
    /\ CandidateSimilarity(p, support.chunk, vembeddings) = support.similarity

\* C26: for a chunk p of the call and every other level with chunks, the support
\* search includes a chunk of that level if and only if the highest adjusted
\* similarity of the level is at least support_threshold, and then it is a chunk
\* with that similarity; p's own level is never included.
C26_SupportIffBestMeetsThreshold ==
    \A p \in CallChunks :
        /\ p.level \notin DOMAIN _find_supporting_chunks(validator, p, layer_results,
                                                          vembeddings)
        /\ \A level \in DOMAIN layer_results \ {p.level} :
              layer_results[level] # <<>> =>
                  /\ level \in DOMAIN _find_supporting_chunks(validator, p, layer_results,
                                                              vembeddings)
                        <=> RLeq(validator.support_threshold,
                                 HighestSimilarity(p, layer_results[level]))
                  /\ level \in DOMAIN _find_supporting_chunks(validator, p, layer_results,
                                                              vembeddings)
                        => IsBestOfLevel(p, level,
                                         _find_supporting_chunks(validator, p,
                                                                 layer_results,
                                                                 vembeddings)[level])

\* the loop of the summary chunks has ended
LoopEnded == sw # None /\ ~(sw.start < Len(sw.words))

\* C29: in the loop of the summary chunks start grows with every iteration, and
\* when the loop has ended the chunks carry chunk_index 0..n-1 in order and every
\* word of the document is in one of them.
C29_SummaryLoopAdvances ==
    /\ [][(sw # None /\ sw' # None) => sw'.start > sw.start]_vars
    /\ [](LoopEnded =>
            /\ \A k \in DOMAIN sw.chunks : sw.chunks[k].metadata.chunk_index = k - 1
            /\ \A n \in DOMAIN sw.words :
                  \E k \in DOMAIN sw.chunks :
                      sw.words[n] \in Elems(SplitWords(sw.chunks[k].text)))

\* the query that returned found its result in the cache
ServedFromCache ==
    /\ q_call # None
    /\ q_call.total_chunks > 0
    /\ q_call.cache_gets = 1
    /\ q_call.cache_sets = 0

\* what query computes on the stores of the state without a cache
UncachedResult(llm_raises) ==
    query(collections, CacheManager(FALSE, FALSE, <<>>), q_call.query_text, q_call.top_k,
          q_call.use_cross_validation, llm_raises).result

\* C30: a result served from the query cache has the sources and the
\* layers_searched counts that an uncached query computes on the stores as they
\* are when it is served.
C30_CachedResultIsCurrent ==
    ServedFromCache =>
        \E llm_raises \in BOOLEAN :
            /\ UncachedResult(llm_raises).sources = q_call.result.sources
            /\ UncachedResult(llm_raises).layers_searched = q_call.result.layers_searched

====
